---- MODULE Spec2Model ----
(***************************************************************************)
(* A model of cura-te-ipsum (src/curateipsum): the tree sync engine        *)
(* (fs.rsync), the hardlink replicator (fs.hardlink_dir, fs.nest_hardlink),*)
(* the snapshot orchestrator (backup.initiate_backup), the lock manager    *)
(* (backup.set_backups_lock / release_backups_lock) and the retention      *)
(* engine (backup.cleanup_old_backups).                                    *)
(*                                                                         *)
(* The filesystem is a table of directory entries (absolute path -> inode  *)
(* number) and a table of inodes, so that hardlinks are two paths with one *)
(* inode.  A path is a sequence of components; a component is a sequence   *)
(* of characters (one-character strings, or one reserved word standing for *)
(* a fixed prefix), so that names can be formatted, parsed, compared and   *)
(* tested for a prefix the way the Python code does.                       *)
(***************************************************************************)
EXTENDS Integers, Sequences, FiniteSets, TLC

VARIABLES
    disk,     \* the filesystem: [ent : path -> inode number, ino : number -> inode]
    clock,    \* the wall clock, datetime.now(): a record of calendar fields
    procs,    \* the runs (OS processes) of cli.main: pid -> [pc, force, dry, ...]
    run,      \* the locals of the current initiate_backup call
    rs,       \* the state of the current fs.rsync generator
    out,      \* the (path, action) pairs the current rsync call has yielded
    ret       \* the arguments and result of the last cleanup_old_backups call

vars == <<disk, clock, procs, run, rs, out, ret>>

---------------------------------------------------------------------------
(* Characters, components and paths *)

\* The characters of names, in code-point order (Python compares str by code point).
Alphabet ==
    << ".backup_delta", ".backup_finished", ".backups_lock",
       "0", "1", "2", "3", "4", "5", "6", "7", "8", "9", "_",
       "a", "b", "c", "d", "s", "t" >>

\* the place of each character in that order
AlphabetRank ==
    [c \in {Alphabet[i] : i \in 1..Len(Alphabet)} |->
        CHOOSE i \in 1..Len(Alphabet) : Alphabet[i] = c]

CharRank(c) == AlphabetRank[c]

Digits == {"0", "1", "2", "3", "4", "5", "6", "7", "8", "9"}

DigitVal(c) == CharRank(c) - CharRank("0")

DigitChar(n) == Alphabet[CharRank("0") + n]

\* a < b for two names, as Python's str comparison
RECURSIVE StrLess(_, _)
StrLess(a, b) ==
    IF b = <<>> THEN FALSE
    ELSE IF a = <<>> THEN TRUE
    ELSE IF Head(a) = Head(b) THEN StrLess(Tail(a), Tail(b))
    ELSE CharRank(Head(a)) < CharRank(Head(b))

\* str.startswith
StartsWith(s, prefix) ==
    Len(s) >= Len(prefix) /\ SubSeq(s, 1, Len(prefix)) = prefix

Parent(p) == SubSeq(p, 1, Len(p) - 1)

Basename(p) == p[Len(p)]

\* os.path.join(p, name)
Join(p, name) == Append(p, name)

\* p is q or lies under q
Under(p, q) == Len(p) >= Len(q) /\ SubSeq(p, 1, Len(q)) = q

StrictlyUnder(p, q) == Len(p) > Len(q) /\ SubSeq(p, 1, Len(q)) = q

\* path[len(root) + 1:]
RelPath(p, root) == SubSeq(p, Len(root) + 1, Len(p))

\* the elements of a finite set of names as a sequence, in name order
RECURSIVE SortNames(_)
SortNames(S) ==
    IF S = {} THEN <<>>
    ELSE LET m == CHOOSE x \in S : \A y \in S \ {x} : StrLess(x, y)
         IN <<m>> \o SortNames(S \ {m})

---------------------------------------------------------------------------
(* The filesystem *)

\* What a symlink can point to.  Link targets are absolute paths outside the
\* trees the program works on: nothing, a regular file, or a directory.
Targets == {"t_none", "t_file", "t_dir", "t_none2"}

TargetKind(t) ==
    CASE t = "t_file" -> "file"
      [] t = "t_dir" -> "dir"
      [] OTHER -> "none"

\* The attributes of a filesystem object the process creates, before any
\* chown/chmod/utime: the process's own uid/gid, the current time.
ProcOwner == <<0, 0>>
NowStamp == "now"
NewDirMode == 493
LinkMode == 511

\* The inode of the object a symlink target names (it exists outside the trees).
ExtInode(t) ==
    [type |-> TargetKind(t), size |-> 1, data |-> 99, mtime |-> "ext",
     mode |-> 420, owner |-> <<7, 7>>, target |-> ""]

EmptyDisk == [ent |-> <<>>, ino |-> <<>>]

Lexists(d, p) == p = <<>> \/ p \in DOMAIN d.ent

RootInode ==
    [type |-> "dir", size |-> 0, data |-> 0, mtime |-> "root",
     mode |-> NewDirMode, owner |-> ProcOwner, target |-> ""]

\* os.lstat(p): the inode of p itself
Lstat(d, p) == IF p = <<>> THEN RootInode ELSE d.ino[d.ent[p]]

TypeOf(d, p) == IF Lexists(d, p) THEN Lstat(d, p).type ELSE "none"

\* the type after following a final symlink (os.path.isdir, os.stat)
KindOf(d, p) ==
    IF TypeOf(d, p) = "link" THEN TargetKind(Lstat(d, p).target) ELSE TypeOf(d, p)

\* os.path.exists
Exists(d, p) == KindOf(d, p) # "none"

\* the paths directly inside directory p
ChildrenOf(d, p) == {q \in DOMAIN d.ent : Len(q) = Len(p) + 1 /\ Parent(q) = p}

\* os.listdir(p): the names in directory p
Listdir(d, p) == {Basename(q) : q \in ChildrenOf(d, p)}

\* the number of directory entries that name the inode of p (st_nlink)
Nlink(d, p) == Cardinality({q \in DOMAIN d.ent : d.ent[q] = d.ent[p]})

FreshIno(d) ==
    CHOOSE n \in 1..(Cardinality(DOMAIN d.ino) + 1) : n \notin DOMAIN d.ino

\* restrict a function to a subset of its domain
Restrict(f, S) == [x \in S |-> f[x]]

\* inodes no entry names are freed
Collect(d) ==
    [d EXCEPT !.ino = Restrict(d.ino, {d.ent[q] : q \in DOMAIN d.ent})]

\* a change of the entries of a directory sets the directory's mtime
TouchDir(d, p) ==
    IF p = <<>> \/ p \notin DOMAIN d.ent THEN d
    ELSE [d EXCEPT !.ino[d.ent[p]].mtime = NowStamp]

\* results of operations that can raise: the disk after, and the exception
\* ("" when none was raised)
Ok(d) == [d |-> d, err |-> ""]
Raise(d, e) == [d |-> d, err |-> e]
Then(r, F(_)) == IF r.err = "" THEN F(r.d) ELSE r

\* add entry p naming a new inode
NewEntry(d, p, inode) ==
    LET n == FreshIno(d)
    IN TouchDir([ent |-> (p :> n) @@ d.ent, ino |-> (n :> inode) @@ d.ino], Parent(p))

\* os.mkdir(p)
Mkdir(d, p) ==
    IF Lexists(d, p) THEN Raise(d, "FileExistsError")
    ELSE IF TypeOf(d, Parent(p)) # "dir" THEN Raise(d, "FileNotFoundError")
    ELSE Ok(NewEntry(d, p, [type |-> "dir", size |-> 0, data |-> 0,
                            mtime |-> NowStamp, mode |-> NewDirMode,
                            owner |-> ProcOwner, target |-> ""]))

\* os.symlink(target, p)
Symlink(d, target, p) ==
    IF Lexists(d, p) THEN Raise(d, "FileExistsError")
    ELSE IF TypeOf(d, Parent(p)) # "dir" THEN Raise(d, "FileNotFoundError")
    ELSE Ok(NewEntry(d, p, [type |-> "link", size |-> 0, data |-> 0,
                            mtime |-> NowStamp, mode |-> LinkMode,
                            owner |-> ProcOwner, target |-> target]))

\* os.link(src, p, follow_symlinks=False)
Link(d, src, p) ==
    IF Lexists(d, p) THEN Raise(d, "FileExistsError")
    ELSE IF ~Lexists(d, src) \/ TypeOf(d, Parent(p)) # "dir"
        THEN Raise(d, "FileNotFoundError")
    ELSE IF TypeOf(d, src) = "dir" THEN Raise(d, "PermissionError")
    ELSE Ok(TouchDir([d EXCEPT !.ent = (p :> d.ent[src]) @@ d.ent], Parent(p)))

\* os.unlink(p)
Unlink(d, p) ==
    IF ~Lexists(d, p) THEN Raise(d, "FileNotFoundError")
    ELSE IF TypeOf(d, p) = "dir" THEN Raise(d, "IsADirectoryError")
    ELSE Ok(TouchDir(Collect([d EXCEPT !.ent = Restrict(d.ent, DOMAIN d.ent \ {p})]),
                     Parent(p)))

\* os.rmdir(p)
Rmdir(d, p) ==
    IF ~Lexists(d, p) THEN Raise(d, "FileNotFoundError")
    ELSE IF TypeOf(d, p) # "dir" THEN Raise(d, "NotADirectoryError")
    ELSE IF ChildrenOf(d, p) # {} THEN Raise(d, "OSError")
    ELSE Ok(TouchDir(Collect([d EXCEPT !.ent = Restrict(d.ent, DOMAIN d.ent \ {p})]),
                     Parent(p)))

\* shutil.rmtree(p, ignore_errors=True): p and everything under it goes
Rmtree(d, p) ==
    IF ~Lexists(d, p) THEN d
    ELSE TouchDir(Collect([d EXCEPT !.ent =
                      Restrict(d.ent, {q \in DOMAIN d.ent : ~Under(q, p)})]),
                  Parent(p))

\* os.chown(p, uid, gid) / os.chmod(p, mode) / os.utime(p, times), which follow
\* a final symlink unless follow_symlinks=False: through a symlink they change
\* the object the link names (outside the trees) or fail when there is none
Chown(d, p, owner, follow) ==
    IF ~Lexists(d, p) THEN Raise(d, "FileNotFoundError")
    ELSE IF follow /\ TypeOf(d, p) = "link"
        THEN (IF KindOf(d, p) = "none" THEN Raise(d, "FileNotFoundError") ELSE Ok(d))
    ELSE Ok([d EXCEPT !.ino[d.ent[p]].owner = owner])

Chmod(d, p, mode, follow) ==
    IF ~Lexists(d, p) THEN Raise(d, "FileNotFoundError")
    ELSE IF follow /\ TypeOf(d, p) = "link"
        THEN (IF KindOf(d, p) = "none" THEN Raise(d, "FileNotFoundError") ELSE Ok(d))
    ELSE Ok([d EXCEPT !.ino[d.ent[p]].mode = mode])

Utime(d, p, mtime, follow) ==
    IF ~Lexists(d, p) THEN Raise(d, "FileNotFoundError")
    ELSE IF follow /\ TypeOf(d, p) = "link"
        THEN (IF KindOf(d, p) = "none" THEN Raise(d, "FileNotFoundError") ELSE Ok(d))
    ELSE Ok([d EXCEPT !.ino[d.ent[p]].mtime = mtime])

---------------------------------------------------------------------------
(* fs.py: directory entries, scantree, rm_direntry, copy_direntry *)

\* Whether os.chmod can act on a symlink itself (os.chmod in
\* os.supports_follow_symlinks): it cannot on Linux.
LchmodSupported == FALSE

\* An os.DirEntry that os.scandir returned for path p.
DirEntry(p) == [path |-> p, ext |-> "", pseudo |-> FALSE]

\* PseudoDirEntry(p): the constructor stores os.path.realpath(p), so the entry
\* of a symlink is the entry of the object the link names.
PseudoDirEntry(d, p) ==
    IF TypeOf(d, p) = "link"
        THEN [path |-> <<>>, ext |-> Lstat(d, p).target, pseudo |-> TRUE]
        ELSE [path |-> p, ext |-> "", pseudo |-> TRUE]

\* entry.stat(follow_symlinks=False): an inode, or "none" when lstat raises
EntLstat(d, e) ==
    IF e.ext # "" THEN ExtInode(e.ext)
    ELSE IF Lexists(d, e.path) THEN Lstat(d, e.path)
    ELSE [type |-> "none"]

\* entry.is_dir(), with follow_symlinks left at its default (True)
EntIsDir(d, e) ==
    IF e.ext # "" THEN TargetKind(e.ext) = "dir" ELSE KindOf(d, e.path) = "dir"

\* entry.is_dir(follow_symlinks=False); PseudoDirEntry ignores the argument
EntIsDirNoFollow(d, e) ==
    IF e.pseudo THEN EntIsDir(d, e) ELSE TypeOf(d, e.path) = "dir"

\* entry.is_file(follow_symlinks=False); PseudoDirEntry ignores the argument
EntIsFileNoFollow(d, e) ==
    IF e.ext # "" THEN TargetKind(e.ext) = "file"
    ELSE IF e.pseudo THEN KindOf(d, e.path) = "file"
    ELSE TypeOf(d, e.path) = "file"

\* entry.is_symlink(): a PseudoDirEntry holds a resolved path, never a link
EntIsSymlink(d, e) == e.ext = "" /\ TypeOf(d, e.path) = "link"

\* scantree(path, dir_first): the entries under path in depth-first order, a
\* directory before (dir_first) or after its content.  os.scandir returns the
\* names of a directory in no specified order; the model lists them by name.
RECURSIVE Scantree(_, _, _)
RECURSIVE ScanNames(_, _, _, _)
ScanNames(d, p, names, dirFirst) ==
    IF names = <<>> THEN <<>>
    ELSE LET q == Join(p, Head(names))
             here == IF TypeOf(d, q) = "dir"
                        THEN IF dirFirst THEN <<q>> \o Scantree(d, q, dirFirst)
                                         ELSE Scantree(d, q, dirFirst) \o <<q>>
                        ELSE <<q>>
         IN here \o ScanNames(d, p, Tail(names), dirFirst)

\* a scantree that takes dir_first the other way round
Scantree_Flipped(d, p, dirFirst) == ScanNames(d, p, SortNames(Listdir(d, p)), ~dirFirst)

Scantree(d, p, dirFirst) == ScanNames(d, p, SortNames(Listdir(d, p)), dirFirst)

\* rm_direntry(entry): recursively delete a file, symlink or directory; an
\* entry of any other type is left alone
RECURSIVE RmDirentry(_, _)
RECURSIVE RmChildren(_, _)
RmChildren(d, paths) ==
    IF paths = <<>> THEN Ok(d)
    ELSE Then(RmDirentry(d, DirEntry(Head(paths))),
              LAMBDA d1 : RmChildren(d1, Tail(paths)))
RmDirentry(d, e) ==
    IF EntIsFileNoFollow(d, e) \/ EntIsSymlink(d, e) THEN Unlink(d, e.path)
    ELSE IF EntIsDirNoFollow(d, e)
        THEN Then(RmChildren(d, [i \in 1..Len(SortNames(Listdir(d, e.path))) |->
                                    Join(e.path, SortNames(Listdir(d, e.path))[i])]),
                  LAMBDA d1 : Rmdir(d1, e.path))
    ELSE Ok(d)

\* copy_file(src, dst): open src for reading (following links), create or
\* truncate dst with src's mode, copy the bytes
CopyFile(d, e, dst) ==
    LET st == EntLstat(d, e)
    IN IF st.type # "file" THEN Raise(d, "OSError")
       ELSE IF TypeOf(d, dst) = "dir" THEN Raise(d, "IsADirectoryError")
       ELSE IF TypeOf(d, dst) = "link" THEN Ok(d)
       ELSE IF TypeOf(d, dst) = "sock" THEN Raise(d, "OSError")
       ELSE IF TypeOf(d, dst) = "file"
           THEN Ok([d EXCEPT !.ino[d.ent[dst]].data = st.data,
                             !.ino[d.ent[dst]].size = st.size,
                             !.ino[d.ent[dst]].mtime = NowStamp])
       ELSE IF TypeOf(d, Parent(dst)) # "dir" THEN Raise(d, "FileNotFoundError")
       ELSE Ok(NewEntry(d, dst, [type |-> "file", size |-> st.size, data |-> st.data,
                                 mtime |-> NowStamp, mode |-> st.mode,
                                 owner |-> ProcOwner, target |-> ""]))

\* copy_direntry(entry, dst_path): non-recursive copy of a file, directory or
\* symlink, then of its owner, mode and times
CopyDirentry(d, e, dst) ==
    LET st == EntLstat(d, e)
        made == IF EntIsDir(d, e) THEN Mkdir(d, dst)
                ELSE IF EntIsSymlink(d, e) THEN Symlink(d, Lstat(d, e.path).target, dst)
                ELSE CopyFile(d, e, dst)
    IN IF st.type = "none" THEN Raise(d, "FileNotFoundError")
       ELSE IF EntIsSymlink(d, e)
           THEN Then(made, LAMBDA d1 :
                Then(Chown(d1, dst, st.owner, FALSE), LAMBDA d2 :
                Then(IF LchmodSupported THEN Chmod(d2, dst, st.mode, FALSE) ELSE Ok(d2),
                     LAMBDA d3 : Utime(d3, dst, st.mtime, FALSE))))
           ELSE Then(made, LAMBDA d1 :
                Then(Chown(d1, dst, st.owner, TRUE), LAMBDA d2 :
                Then(Chmod(d2, dst, st.mode, TRUE),
                     LAMBDA d3 : Utime(d3, dst, st.mtime, TRUE))))

\* update_direntry(src_entry, dst_entry): remove dst, copy src in its place
UpdateDirentry(d, srcEnt, dstEnt) ==
    Then(RmDirentry(d, dstEnt), LAMBDA d1 : CopyDirentry(d1, srcEnt, dstEnt.path))

---------------------------------------------------------------------------
(* fs.rsync: a generator.  RsyncBegin is its code up to the first loop;      *)
(* RsyncStep runs it from one yield (or the beginning of an entry) to the    *)
(* next yield, raise or return.                                              *)

IdleRs ==
    [phase |-> "idle", src |-> <<>>, dst |-> <<>>, dstList |-> <<>>,
     srcMap |-> <<>>, cur |-> <<>>, dstStat |-> RootInode, why |-> "",
     err |-> ""]

\* the sequence s without its elements equal to x
SeqWithout(s, x) == SelectSeq(s, LAMBDA y : y # x)

SeqToSet(s) == {s[i] : i \in 1..Len(s)}

\* the generator moves on to the next loop when one is exhausted
Advance(r) ==
    IF r.phase = "dst" /\ r.dstList = <<>>
        THEN IF r.srcMap = <<>> THEN [r EXCEPT !.phase = "mtime"]
                                ELSE [r EXCEPT !.phase = "create"]
    ELSE IF r.phase = "create" /\ r.srcMap = <<>> THEN [r EXCEPT !.phase = "mtime"]
    ELSE r

RsRaised(d, r, e) == [d |-> d, rs |-> [r EXCEPT !.phase = "raised", !.err = e], y |-> <<>>]

\* a sync that makes the dst directory before it looks at src
RsyncBegin_MkdirFirst(d, src, dst) ==
    LET r0 == [IdleRs EXCEPT !.src = src, !.dst = dst]
        made == IF Exists(d, dst) THEN Ok(d) ELSE Mkdir(d, dst)
    IN IF KindOf(d, src) # "dir" THEN RsRaised(made.d, r0, "BackupCreationError")
       ELSE IF Exists(d, dst) /\ KindOf(d, dst) # "dir"
           THEN RsRaised(d, r0, "BackupCreationError")
       ELSE IF made.err # "" THEN RsRaised(made.d, r0, made.err)
       ELSE [d |-> made.d,
             rs |-> Advance([r0 EXCEPT
                 !.phase = "dst",
                 !.srcMap = [i \in 1..Len(Scantree(made.d, src, TRUE)) |->
                                RelPath(Scantree(made.d, src, TRUE)[i], src)],
                 !.dstList = Scantree(made.d, dst, FALSE)]),
             y |-> <<>>]

\* lines 250-269: the checks of src and dst, the source map, the dst listing
RsyncBegin(d, src, dst) ==
    LET r0 == [IdleRs EXCEPT !.src = src, !.dst = dst]
        made == IF Exists(d, dst) THEN Ok(d) ELSE Mkdir(d, dst)
    IN IF KindOf(d, src) # "dir" THEN RsRaised(d, r0, "BackupCreationError")
       ELSE IF Exists(d, dst) /\ KindOf(d, dst) # "dir"
           THEN RsRaised(d, r0, "BackupCreationError")
       ELSE IF made.err # "" THEN RsRaised(made.d, r0, made.err)
       ELSE [d |-> made.d,
             rs |-> Advance([r0 EXCEPT
                 !.phase = "dst",
                 !.srcMap = [i \in 1..Len(Scantree(made.d, src, TRUE)) |->
                                RelPath(Scantree(made.d, src, TRUE)[i], src)],
                 !.dstList = Scantree(made.d, dst, FALSE)]),
             y |-> <<>>]

\* a rewrite without the continue: the owner check follows it
RsRewrite_Through(d, r, rel, why) ==
    LET u == UpdateDirentry(d, DirEntry(r.src \o rel), DirEntry(r.dst \o rel))
    IN [d |-> u.d,
        rs |-> [r EXCEPT !.why = why, !.phase = "owner",
                         !.dstStat = Lstat(d, r.dst \o rel)],
        y |-> << <<rel, IF u.err = "" THEN "REWRITE" ELSE "ERROR">> >>]

\* _lg.debug("Rsync, rewriting (<why>)"); try: update_direntry(src_entry,
\* dst_entry); yield REWRITE; except OSError: yield ERROR
RsRewrite(d, r, rel, why) ==
    LET u == UpdateDirentry(d, DirEntry(r.src \o rel), DirEntry(r.dst \o rel))
    IN [d |-> u.d, rs |-> Advance([r EXCEPT !.why = why]),
        y |-> << <<rel, IF u.err = "" THEN "REWRITE" ELSE "ERROR">> >>]

\* lines 374-378: the owner check, reached when no rewrite was needed
RsOwner(d, r, rel) ==
    LET sst == Lstat(d, r.src \o rel)
        dp == r.dst \o rel
        c == Chown(d, dp, sst.owner, TRUE)
    IN IF sst.owner # r.dstStat.owner
          THEN IF c.err # "" THEN RsRaised(c.d, r, c.err)
               ELSE [d |-> c.d, rs |-> Advance([r EXCEPT !.phase = "dst"]),
                     y |-> << <<rel, "UPDATE_OWNER">> >>]
          ELSE [d |-> d, rs |-> Advance([r EXCEPT !.phase = "dst"]), y |-> <<>>]

\* a sync engine that skips the alias check
SameInode_Never(d, sp, dp) == FALSE

\* line 329: src_entry.inode() == dst_entry.inode()
SameInode(d, sp, dp) == d.ent[sp] = d.ent[dp]

\* line 371: the mode os.chmod is given
ChmodMode(sst, dst) == dst.mode

\* lines 291-366: why the dst entry is rewritten, "" when it is not
RewriteWhy(d, sp, dp, sst, dst) ==
    IF sst.type = "file" /\ dst.type # "file" THEN "type"
    ELSE IF sst.type = "dir" /\ dst.type # "dir" THEN "type"
    ELSE IF sst.type = "link" /\ dst.type # "link" THEN "type"
    ELSE IF SameInode(d, sp, dp) THEN "inode"
    ELSE IF sst.type = "file" /\ ~(sst.size = dst.size /\ sst.mtime = dst.mtime)
        THEN IF sst.size # dst.size THEN "size" ELSE "time"
    ELSE IF sst.type = "link" /\ sst.target # dst.target THEN "target"
    ELSE ""

\* lines 277-285: the dst entry has no source entry
RsDelete(d, r, rel, rm) ==
    IF rm.err # "" THEN RsRaised(rm.d, r, "BackupCreationError")
    ELSE [d |-> rm.d, rs |-> Advance(r), y |-> << <<rel, "DELETE">> >>]

\* lines 369-372: the modes differ
RsPerm(r, rel, dst, ch) ==
    IF ch.err # "" THEN RsRaised(ch.d, r, ch.err)
    ELSE [d |-> ch.d,
          rs |-> [r EXCEPT !.phase = "owner", !.dstStat = dst],
          y |-> << <<rel, "UPDATE_PERM">> >>]

\* lines 291-378 for the dst entry dp, the source's sp, and their lstat
RsCompare(d, r, rel, sp, dp, sst, dst, why) ==
    IF why # "" THEN RsRewrite(d, r, rel, why)
    ELSE IF sst.mode # dst.mode
        THEN RsPerm(r, rel, dst, Chmod(d, dp, ChmodMode(sst, dst), TRUE))
    ELSE RsOwner(d, [r EXCEPT !.dstStat = dst], rel)

RsEntry(d, r, rel, sp, dp, inSrc) ==
    IF ~inSrc THEN RsDelete(d, r, rel, RmDirentry(d, DirEntry(dp)))
    ELSE RsCompare(d, r, rel, sp, dp, Lstat(d, sp), Lstat(d, dp),
                   RewriteWhy(d, sp, dp, Lstat(d, sp), Lstat(d, dp)))

\* lines 272-378: one entry of the dst tree
RsDstEntry(d, r0) ==
    RsEntry(d,
            [r0 EXCEPT !.dstList = Tail(r0.dstList),
                       !.srcMap = SeqWithout(r0.srcMap, RelPath(Head(r0.dstList), r0.dst)),
                       !.cur = RelPath(Head(r0.dstList), r0.dst)],
            RelPath(Head(r0.dstList), r0.dst),
            r0.src \o RelPath(Head(r0.dstList), r0.dst),
            Head(r0.dstList),
            RelPath(Head(r0.dstList), r0.dst) \in SeqToSet(r0.srcMap))

\* lines 380-388: one of the source entries the dst tree did not have
RsCreate(d, r0) ==
    LET rel == Head(r0.srcMap)
        r == [r0 EXCEPT !.srcMap = Tail(r0.srcMap), !.cur = rel]
        c == CopyDirentry(d, DirEntry(r0.src \o rel), r0.dst \o rel)
    IN [d |-> c.d, rs |-> Advance(r),
        y |-> << <<rel, IF c.err = "" THEN "CREATE" ELSE "ERROR">> >>]

\* lines 390-411: the mtimes of the directories of dst are set back
RECURSIVE RsRestore(_, _, _)
RsRestore(d, r, paths) ==
    IF paths = <<>>
        THEN IF Lstat(d, r.src).mtime # Lstat(d, r.dst).mtime
                THEN Utime(d, r.dst, Lstat(d, r.src).mtime, FALSE)
                ELSE Ok(d)
    ELSE LET sp == Head(paths)
             dp == r.dst \o RelPath(sp, r.src)
         IN IF ~EntIsDir(d, DirEntry(sp)) THEN RsRestore(d, r, Tail(paths))
            ELSE IF ~Lexists(d, dp) THEN Raise(d, "FileNotFoundError")
            ELSE IF Lstat(d, sp).mtime # Lstat(d, dp).mtime
                THEN Then(Utime(d, dp, Lstat(d, sp).mtime, FALSE),
                          LAMBDA d1 : RsRestore(d1, r, Tail(paths)))
            ELSE RsRestore(d, r, Tail(paths))

RsMtime(d, r) ==
    LET m == RsRestore(d, r, Scantree(d, r.src, TRUE))
    IN IF m.err # "" THEN RsRaised(m.d, r, m.err)
       ELSE [d |-> m.d, rs |-> [r EXCEPT !.phase = "done"], y |-> <<>>]

\* next(generator): run to the next yield, raise or return
RsyncStep(d, r) ==
    CASE r.phase = "dst" -> RsDstEntry(d, r)
      [] r.phase = "owner" -> RsOwner(d, r, r.cur)
      [] r.phase = "create" -> RsCreate(d, r)
      [] r.phase = "mtime" -> RsMtime(d, r)

RsRunning(r) == r.phase \in {"dst", "owner", "create", "mtime"}

---------------------------------------------------------------------------
(* The trees the model starts from *)

BaseFile ==
    [type |-> "file", size |-> 1, data |-> 1, mtime |-> "t1",
     mode |-> 420, owner |-> <<1, 1>>, target |-> ""]

BaseDir ==
    [type |-> "dir", size |-> 0, data |-> 0, mtime |-> "t1",
     mode |-> 493, owner |-> <<1, 1>>, target |-> ""]

BaseLink ==
    [type |-> "link", size |-> 0, data |-> 0, mtime |-> "t1",
     mode |-> LinkMode, owner |-> <<1, 1>>, target |-> "t_none"]

\* the kinds of entry a tree is built from, by name
KindInode(k) ==
    CASE k = "f" -> BaseFile
      [] k = "f_size" -> [BaseFile EXCEPT !.size = 2, !.data = 2]
      [] k = "f_time" -> [BaseFile EXCEPT !.mtime = "t2"]
      [] k = "f_mode" -> [BaseFile EXCEPT !.mode = 384]
      [] k = "f_own" -> [BaseFile EXCEPT !.owner = <<2, 2>>]
      [] k = "f_mode_own" -> [BaseFile EXCEPT !.mode = 384, !.owner = <<2, 2>>]
      [] k = "d" -> BaseDir
      [] k = "d_mode" -> [BaseDir EXCEPT !.mode = 448]
      [] k = "d_own" -> [BaseDir EXCEPT !.owner = <<2, 2>>]
      [] k = "l_none" -> BaseLink
      [] k = "l_none2" -> [BaseLink EXCEPT !.target = "t_none2"]
      [] k = "l_file" -> [BaseLink EXCEPT !.target = "t_file"]
      [] k = "l_dir" -> [BaseLink EXCEPT !.target = "t_dir"]
      [] k = "l_own" -> [BaseLink EXCEPT !.owner = <<2, 2>>]
      [] k = "sock" -> [BaseFile EXCEPT !.type = "sock", !.size = 0, !.data = 0]

FileKinds == {"f", "f_size", "f_time", "f_mode", "f_own", "f_mode_own"}
DirKinds == {"d", "d_mode", "d_own"}
LinkKinds == {"l_none", "l_none2", "l_file", "l_dir", "l_own"}

NameA == <<"a">>
NameB == <<"b">>
NameC == <<"c">>

\* a tree: the kind of entry a, of a/b (when a is a directory) and of c;
\* "-" is no entry, "=" (in a destination) a hardlink to the source's entry
Tree(a, b, c) == [a |-> a, b |-> b, c |-> c]

NoTree == Tree("-", "-", "-")

\* put an entry of kind k at path p; "=" links p to path twin
Plant(d, p, k, twin) ==
    IF k = "-" THEN d
    ELSE IF k = "=" THEN Link(d, twin, p).d
    ELSE [ent |-> (p :> FreshIno(d)) @@ d.ent,
          ino |-> (FreshIno(d) :> KindInode(k)) @@ d.ino]

\* the disk d with tree t planted under the directory root (twinRoot: the
\* tree the "=" entries link to)
PlantTree(d, root, t, twinRoot) ==
    LET d1 == Plant(d, Join(root, NameA), t.a, Join(twinRoot, NameA))
        d2 == Plant(d1, Join(Join(root, NameA), NameB), t.b,
                    Join(Join(twinRoot, NameA), NameB))
    IN Plant(d2, Join(root, NameC), t.c, Join(twinRoot, NameC))

\* a directory as the trees of the model have them, at path p
PlantDir(d, p) == Plant(d, p, "d", <<>>)

---------------------------------------------------------------------------
(* datetime: the clock is [day, sec], days since 1970-01-01 and seconds of  *)
(* the day; a datetime is [y, mo, d, h, mi, s].                             *)

\* the date of a day number (proleptic Gregorian calendar)
CivilFromDays(z) ==
    LET z1 == z + 719468
        era == z1 \div 146097
        doe == z1 - era * 146097
        yoe == (doe - doe \div 1460 + doe \div 36524 - doe \div 146096) \div 365
        doy == doe - (365 * yoe + yoe \div 4 - yoe \div 100)
        mp == (5 * doy + 2) \div 153
        dd == doy - (153 * mp + 2) \div 5 + 1
        mm == IF mp < 10 THEN mp + 3 ELSE mp - 9
    IN [y |-> yoe + era * 400 + (IF mm <= 2 THEN 1 ELSE 0), mo |-> mm, d |-> dd]

\* the day number of a date
DaysFromCivil(y, mo, dd) ==
    LET y1 == IF mo <= 2 THEN y - 1 ELSE y
        era == y1 \div 400
        yoe == y1 - era * 400
        doy == (153 * (IF mo > 2 THEN mo - 3 ELSE mo + 9) + 2) \div 5 + dd - 1
        doe == yoe * 365 + yoe \div 4 - yoe \div 100 + doy
    IN era * 146097 + doe - 719468

IsLeap(y) == (y % 4 = 0 /\ y % 100 # 0) \/ y % 400 = 0

DaysInMonth(y, mo) ==
    IF mo = 2 THEN (IF IsLeap(y) THEN 29 ELSE 28)
    ELSE IF mo \in {4, 6, 9, 11} THEN 30 ELSE 31

\* datetime of a clock value
DateTimeAt(cd, sec) ==
    [y |-> cd.y, mo |-> cd.mo, d |-> cd.d,
     h |-> sec \div 3600, mi |-> (sec % 3600) \div 60, s |-> sec % 60]
DateTimeOf(c) == DateTimeAt(CivilFromDays(c.day), c.sec)

DayOf(dt) == DaysFromCivil(dt.y, dt.mo, dt.d)

\* datetime.weekday(): Monday is 0
Weekday(day) == (day + 3) % 7

\* the number of ISO weeks of year y
IsoWeeksIn(y) ==
    LET jan1 == Weekday(DaysFromCivil(y, 1, 1))
    IN IF jan1 = 3 \/ (jan1 = 2 /\ IsLeap(y)) THEN 53 ELSE 52

\* datetime.isocalendar()[1]: the ISO week number of a day
IsoWeekOf(y, w) ==
    IF w < 1 THEN IsoWeeksIn(y - 1)
    ELSE IF w > IsoWeeksIn(y) THEN 1
    ELSE w
IsoWeekIn(day, y) ==
    IsoWeekOf(y, ((day - DaysFromCivil(y, 1, 1) + 1) - (Weekday(day) + 1) + 10) \div 7)
IsoWeek(day) == IsoWeekIn(day, CivilFromDays(day).y)

\* n as k decimal digits
RECURSIVE DigitsOf(_, _)
DigitsOf(n, k) ==
    IF k = 0 THEN <<>> ELSE Append(DigitsOf(n \div 10, k - 1), DigitChar(n % 10))

\* dt.strftime(BACKUP_ENT_FMT), BACKUP_ENT_FMT = "%Y%m%d_%H%M%S"
Strftime(dt) ==
    DigitsOf(dt.y, 4) \o DigitsOf(dt.mo, 2) \o DigitsOf(dt.d, 2) \o <<"_">>
        \o DigitsOf(dt.h, 2) \o DigitsOf(dt.mi, 2) \o DigitsOf(dt.s, 2)

\* The regular expression strptime builds for the format takes, for each of
\* %m %d %H %M %S, two digits when they fit the directive and else one, and
\* backtracks in that order.
IsDigitAt(str, i) == i <= Len(str) /\ str[i] \in Digits

TwoDigitOk(f, a, b) ==
    CASE f = "m" -> (a = 1 /\ b <= 2) \/ (a = 0 /\ b >= 1)
      [] f = "d" -> (a = 3 /\ b <= 1) \/ a \in {1, 2} \/ (a = 0 /\ b >= 1)
      [] f = "H" -> (a = 2 /\ b <= 3) \/ a <= 1
      [] f = "M" -> a <= 5
      [] f = "S" -> (a = 6 /\ b <= 1) \/ a <= 5

OneDigitOk(f, a) == IF f \in {"m", "d"} THEN a >= 1 ELSE TRUE

FmtFields == <<"m", "d", "_", "H", "M", "S">>

NoMatch == [ok |-> FALSE, vals |-> <<>>, end |-> 0]

\* match fields k.. of the format at position i of str
RECURSIVE ReMatch(_, _, _)
ReMatch(str, i, k) ==
    IF k > Len(FmtFields) THEN [ok |-> TRUE, vals |-> <<>>, end |-> i]
    ELSE IF FmtFields[k] = "_"
        THEN IF i <= Len(str) /\ str[i] = "_" THEN ReMatch(str, i + 1, k + 1)
             ELSE NoMatch
    ELSE LET f == FmtFields[k]
             a == DigitVal(str[i])
             b == DigitVal(str[i + 1])
             two == IF IsDigitAt(str, i) /\ IsDigitAt(str, i + 1) /\ TwoDigitOk(f, a, b)
                       THEN ReMatch(str, i + 2, k + 1) ELSE NoMatch
             one == IF IsDigitAt(str, i) /\ OneDigitOk(f, a)
                       THEN ReMatch(str, i + 1, k + 1) ELSE NoMatch
         IN IF two.ok THEN [two EXCEPT !.vals = <<10 * a + b>> \o two.vals]
            ELSE IF one.ok THEN [one EXCEPT !.vals = <<a>> \o one.vals]
            ELSE NoMatch

NoDate == [ok |-> FALSE]

\* datetime.strptime(name, BACKUP_ENT_FMT): [ok |-> FALSE] for a ValueError
\* the datetime of year y and the values m the expression matched
DateOfMatch(str, m, y) ==
    IF ~m.ok \/ m.end # Len(str) + 1 THEN NoDate
    ELSE IF y < 1 \/ m.vals[2] > DaysInMonth(y, m.vals[1]) \/ m.vals[5] > 59
        THEN NoDate
    ELSE [ok |-> TRUE, y |-> y, mo |-> m.vals[1], d |-> m.vals[2],
          h |-> m.vals[3], mi |-> m.vals[4], s |-> m.vals[5]]

Strptime(str) ==
    IF ~(\A i \in 1..4 : IsDigitAt(str, i)) THEN NoDate
    ELSE DateOfMatch(str, ReMatch(str, 5, 1),
                     1000 * DigitVal(str[1]) + 100 * DigitVal(str[2])
                        + 10 * DigitVal(str[3]) + DigitVal(str[4]))

---------------------------------------------------------------------------
(* backup.py: names, markers, valid backups *)

BACKUP_MARKER == <<".backup_finished">>
DELTA_DIR == <<".backup_delta">>
LOCK_FILE == <<".backups_lock">>

BackupsDir == << <<"b">> >>

\* a marker whose name does not tell the backup it belongs to
MarkerName_Shared(name) == BACKUP_MARKER

\* "%s_%s" % (BACKUP_MARKER, backup_entry.name)
MarkerName(name) == BACKUP_MARKER \o <<"_">> \o name

\* _get_backup_marker(backup_entry).path
GetBackupMarker(p) == Join(p, MarkerName(Basename(p)))

\* a test that takes a directory without its marker for a backup
IsBackup_NoMarker(d, p) ==
    /\ Listdir(d, p) # {MarkerName(Basename(p))}
    /\ Strptime(Basename(p)).ok

\* _is_backup(backup_entry)
IsBackup(d, p) ==
    /\ Exists(d, GetBackupMarker(p))
    /\ Listdir(d, p) # {MarkerName(Basename(p))}
    /\ Strptime(Basename(p)).ok

\* _iterate_backups(backups_dir)
IterateBackups(d, dir) == {p \in ChildrenOf(d, dir) : IsBackup(d, p)}

\* sorted(_iterate_backups(backups_dir), key=lambda e: e.name)
RECURSIVE SortedBackups(_)
SortedBackups(S) ==
    IF S = {} THEN <<>>
    ELSE LET m == CHOOSE x \in S :
                     \A y \in S \ {x} : StrLess(Basename(x), Basename(y))
         IN <<m>> \o SortedBackups(S \ {m})

\* _get_latest_backup(backups_dir): <<>> stands for None
LastOrNone(all) == IF all # <<>> THEN all[Len(all)] ELSE <<>>
GetLatestBackup(d, dir) == LastOrNone(SortedBackups(IterateBackups(d, dir)))

\* open(path, "a").close(): create an empty file unless there is one
TouchFile(d, p) ==
    IF TypeOf(d, p) = "dir" THEN Raise(d, "IsADirectoryError")
    ELSE IF Lexists(d, p) THEN Ok(d)
    ELSE IF TypeOf(d, Parent(p)) # "dir" THEN Raise(d, "FileNotFoundError")
    ELSE Ok(NewEntry(d, p, [type |-> "file", size |-> 0, data |-> 0,
                            mtime |-> NowStamp, mode |-> 420,
                            owner |-> ProcOwner, target |-> ""]))

\* set_backup_marker(backup_entry)
SetBackupMarker(d, p) ==
    IF Exists(d, GetBackupMarker(p)) THEN Ok(d) ELSE TouchFile(d, GetBackupMarker(p))

---------------------------------------------------------------------------
(* fs.hardlink_dir and fs._recursive_hardlink *)

\* The system calls of _recursive_hardlink(src, dst), in order: for a
\* directory mkdir, its content, then its chown/chmod/utime ("meta"); for a
\* file or symlink os.link; raise NotImplementedError for anything else.
RECURSIVE HardlinkOps(_, _, _)
RECURSIVE HardlinkNames(_, _, _, _)
HardlinkNames(d, src, dst, names) ==
    IF names = <<>> THEN <<>>
    ELSE LET sp == Join(src, Head(names))
             dp == Join(dst, Head(names))
             here == IF TypeOf(d, sp) = "dir"
                        THEN << <<"mkdir", sp, dp>> >> \o HardlinkOps(d, sp, dp)
                                \o << <<"meta", sp, dp>> >>
                     ELSE IF TypeOf(d, sp) \in {"file", "link"}
                        THEN << <<"link", sp, dp>> >>
                     ELSE << <<"unsupported", sp, dp>> >>
         IN here \o HardlinkNames(d, src, dst, Tail(names))
HardlinkOps(d, src, dst) == HardlinkNames(d, src, dst, SortNames(Listdir(d, src)))

\* a copy that leaves the new directories with the attributes os.mkdir gave
HardlinkOp_NoMeta(d, op) ==
    CASE op[1] = "mkdir" -> Mkdir(d, op[3])
      [] op[1] = "link" -> Link(d, op[2], op[3])
      [] op[1] = "meta" -> Ok(d)
      [] op[1] = "unsupported" -> Raise(d, "NotImplementedError")

\* a copy that passes over what is no file, directory or symlink
HardlinkOp_Skip(d, op) ==
    CASE op[1] = "mkdir" -> Mkdir(d, op[3])
      [] op[1] = "link" -> Link(d, op[2], op[3])
      [] op[1] = "meta" ->
            Then(Chown(d, op[3], Lstat(d, op[2]).owner, TRUE), LAMBDA d1 :
            Then(Chmod(d1, op[3], Lstat(d, op[2]).mode, TRUE), LAMBDA d2 :
                 Utime(d2, op[3], Lstat(d, op[2]).mtime, TRUE)))
      [] op[1] = "unsupported" -> Ok(d)

\* one of those system calls
HardlinkOp(d, op) ==
    CASE op[1] = "mkdir" -> Mkdir(d, op[3])
      [] op[1] = "link" -> Link(d, op[2], op[3])
      [] op[1] = "meta" ->
            Then(Chown(d, op[3], Lstat(d, op[2]).owner, TRUE), LAMBDA d1 :
            Then(Chmod(d1, op[3], Lstat(d, op[2]).mode, TRUE), LAMBDA d2 :
                 Utime(d2, op[3], Lstat(d, op[2]).mtime, TRUE)))
      [] op[1] = "unsupported" -> Raise(d, "NotImplementedError")

\* a hardlink_dir that takes a dst that is there
HardlinkDirBegin_Over(d, src, dst) ==
    IF KindOf(d, src) # "dir" THEN Raise(d, "RuntimeError")
    ELSE IF Exists(d, dst) THEN Ok(Rmtree(d, dst))
    ELSE Mkdir(d, dst)

\* hardlink_dir(src_dir, dst_dir) up to the call of _recursive_hardlink
HardlinkDirBegin(d, src, dst) ==
    IF KindOf(d, src) # "dir" THEN Raise(d, "RuntimeError")
    ELSE IF Exists(d, dst) THEN Raise(d, "RuntimeError")
    ELSE Mkdir(d, dst)

\* the whole of hardlink_dir(src_dir, dst_dir)
RECURSIVE HardlinkRun(_, _)
HardlinkRun(d, ops) ==
    IF ops = <<>> THEN Ok(d)
    ELSE Then(HardlinkOp(d, Head(ops)), LAMBDA d1 : HardlinkRun(d1, Tail(ops)))
HardlinkDir(d, src, dst) ==
    Then(HardlinkDirBegin(d, src, dst),
         LAMBDA d1 : HardlinkRun(d1, HardlinkOps(d1, src, dst)))

---------------------------------------------------------------------------
(* fs.nest_hardlink and backup.process_backed_entry *)

\* os.path.samestat(os.lstat(src), dst_entry.stat())
SameStat(d, src, dstEnt) ==
    dstEnt.ext = "" /\ Lexists(d, dstEnt.path) /\ d.ent[src] = d.ent[dstEnt.path]

\* lines 531-538: copy every missing part of the relative path, parents first
RECURSIVE NestParts(_, _, _, _)
NestParts(d, srcCur, dstCur, parts) ==
    IF parts = <<>> THEN Ok(d)
    ELSE LET sp == Join(srcCur, Head(parts))
             dp == Join(dstCur, Head(parts))
         IN IF Exists(d, dp) THEN NestParts(d, sp, dp, Tail(parts))
            ELSE Then(CopyDirentry(d, PseudoDirEntry(d, sp), dp),
                      LAMBDA d1 : NestParts(d1, sp, dp, Tail(parts)))

\* nest_hardlink(src_dir, src_relpath, dst_dir)
NestHardlink(d, srcDir, rel, dstDir) ==
    LET srcFull == srcDir \o rel
        dstEnt == PseudoDirEntry(d, dstDir \o rel)
        made == IF Lexists(d, dstDir) THEN Ok(d) ELSE Mkdir(d, dstDir)
        cleared(d1) ==
            IF dstEnt.ext = "" /\ Lexists(d1, dstEnt.path) /\ dstEnt.path # <<>>
                THEN IF SameStat(d1, srcFull, dstEnt) THEN Raise(d1, "return")
                     ELSE RmDirentry(d1, dstEnt)
                ELSE Ok(d1)
        r == Then(Then(made, cleared), LAMBDA d2 : NestParts(d2, srcDir, dstDir, rel))
    IN IF ~Lexists(d, srcFull) THEN Raise(d, "RuntimeError")
       ELSE IF Lexists(d, dstDir) /\ KindOf(d, dstDir) # "dir" THEN Raise(d, "RuntimeError")
       ELSE IF r.err = "return" THEN Ok(r.d) ELSE r

\* process_backed_entry(backup_dir, entry_relpath, action, msg)
ProcessBackedEntry(d, backupDir, rel, action) ==
    IF action \notin {"ERROR", "DELETE"}
        THEN NestHardlink(d, backupDir, rel, Join(backupDir, DELTA_DIR))
        ELSE Ok(d)

---------------------------------------------------------------------------
(* The parts of the state a specification leaves alone *)

IdleClock == [day |-> 0, sec |-> 0]
IdleRun ==
    [pc |-> "idle", dry |-> FALSE, cur |-> <<>>, latest |-> <<>>, sources |-> <<>>,
     idx |-> 0, changed |-> FALSE, hl |-> <<>>, err |-> "", n |-> 0,
     failed |-> FALSE, edited |-> FALSE, prev |-> <<>>, valid |-> {}]
IdleRet == [pc |-> "idle"]
NoProcs == <<>>

---------------------------------------------------------------------------
(* SpecSync: one call all(fs.rsync(src, dst)) on every pair of trees *)

SrcRoot == << <<"s">> >>
DstRoot == << <<"d">> >>

TopKinds == {"-", "sock"} \cup FileKinds \cup DirKinds \cup LinkKinds
InnerKinds == {"-", "f", "f_size", "l_none", "d"}
SideKinds == {"-", "f", "d"}

SrcTrees ==
    {Tree(a, b, c) : <<a, b, c>> \in
        {x \in TopKinds \X InnerKinds \X SideKinds : x[1] \in DirKinds \/ x[2] = "-"}}

\* the destinations for source tree st: any tree, or one with hardlinks to
\* the source's files and symlinks
Linkable(k) == k \in FileKinds \cup LinkKinds
DstTrees(st) ==
    {Tree(a, b, c) : <<a, b, c>> \in
        {x \in (TopKinds \cup {"="}) \X (InnerKinds \cup {"="}) \X SideKinds :
            /\ x[1] \in DirKinds \/ x[2] = "-"
            /\ x[1] = "=" => Linkable(st.a)
            /\ x[2] = "=" => Linkable(st.b)}}

\* what is at the path of a root: a directory, nothing, or a file
RootKinds == {"d", "-", "f"}

SyncDisk(sr, st, dr, dt) ==
    LET d1 == Plant(EmptyDisk, SrcRoot, sr, <<>>)
        d2 == IF sr = "d" THEN PlantTree(d1, SrcRoot, st, <<>>) ELSE d1
        d3 == Plant(d2, DstRoot, dr, <<>>)
    IN IF dr = "d" THEN PlantTree(d3, DstRoot, dt, SrcRoot) ELSE d3

InitSync ==
    /\ \E sr \in RootKinds, dr \in RootKinds :
       \E st \in SrcTrees :
       \E dt \in DstTrees(st) :
          /\ sr # "d" => st = NoTree
          /\ dr # "d" => dt = NoTree
          /\ disk = SyncDisk(sr, st, dr, dt)
    /\ rs = IdleRs
    /\ out = <<>>
    /\ clock = IdleClock /\ procs = NoProcs /\ run = IdleRun /\ ret = IdleRet

\* the outcome of a step becomes the next state
SetBegun(b) == disk' = b.d /\ rs' = b.rs
SetStepped(n) == disk' = n.d /\ rs' = n.rs /\ out' = out \o n.y

\* the call fs.rsync(SrcRoot, DstRoot) and the first next() up to the loops
SyncBegin ==
    /\ rs.phase = "idle"
    /\ SetBegun(RsyncBegin(disk, SrcRoot, DstRoot))
    /\ UNCHANGED <<out, clock, procs, run, ret>>

\* all(...) asks for the next triple and drops it
SyncNext ==
    /\ RsRunning(rs)
    /\ SetStepped(RsyncStep(disk, rs))
    /\ UNCHANGED <<clock, procs, run, ret>>

NextSync == SyncBegin \/ SyncNext

SpecSync == InitSync /\ [][NextSync]_vars

---------------------------------------------------------------------------
(* backup.initiate_backup, one step at a time.  run.pc is the place in the   *)
(* function: "hardlink" in fs.hardlink_dir, "strip" before line 325, "sync"  *)
(* in the loop over the sources, "finalize" before line 362; "done" after    *)
(* it returned, "crashed" after an exception left it, "killed" when the      *)
(* process was terminated.                                                   *)

RunActive == run.pc \in {"hardlink", "strip", "sync", "finalize"}

Crashed(r, e) == [r EXCEPT !.pc = "crashed", !.err = e]

\* lines 301-318: the name of the new backup, the latest backup, the new
\* directory (empty, or begun as a copy of the latest)
\* Besides the locals of initiate_backup, run keeps what the properties
\* say about a run: failed (the except clause of line 357 was entered), n (the
\* number of runs begun), edited (the source was edited after the last run
\* began), prev (the backup of the run before, when that run returned and
\* the source was not edited since) and valid (the backups _iterate_backups
\* found when the run began).
IbBeginRun(r, dry, sources, cur, latest, valid) ==
    [r EXCEPT !.dry = dry, !.cur = cur, !.latest = latest,
              !.sources = sources, !.idx = 1, !.changed = FALSE,
              !.hl = <<>>, !.err = "", !.n = r.n + 1,
              !.failed = FALSE, !.edited = FALSE, !.valid = valid,
              !.prev = IF r.pc = "done" /\ ~r.edited THEN r.cur ELSE <<>>]

IbBeginDir(r1, made) ==
    IF made.err # "" THEN [d |-> made.d, run |-> Crashed(r1, made.err)]
    ELSE IF r1.latest = <<>> THEN [d |-> made.d, run |-> [r1 EXCEPT !.pc = "sync"]]
    ELSE [d |-> made.d,
          run |-> [r1 EXCEPT !.pc = "hardlink",
                             !.hl = HardlinkOps(made.d, r1.latest, r1.cur)]]

IbBeginAt(d, r, dry, sources, cur, latest) ==
    IbBeginDir(IbBeginRun(r, dry, sources, cur, latest, IterateBackups(d, BackupsDir)),
               IF latest = <<>> THEN Mkdir(d, cur) ELSE HardlinkDirBegin(d, latest, cur))

IbBegin(d, r, now, dry, sources) ==
    IbBeginAt(d, r, dry, sources, Join(BackupsDir, Strftime(DateTimeOf(now))),
              GetLatestBackup(d, BackupsDir))

\* one system call of _recursive_hardlink; it returns True after the last
IbHardlinkOp(d, r) ==
    LET h == HardlinkOp(d, Head(r.hl))
    IN IF h.err # "" THEN [d |-> h.d, run |-> Crashed(r, h.err)]
       ELSE [d |-> h.d,
             run |-> [r EXCEPT !.hl = Tail(r.hl),
                               !.pc = IF Tail(r.hl) = <<>> THEN "strip" ELSE "hardlink"]]

\* lines 325-332: remove the markers and the delta directory the copy inherited
RECURSIVE RemoveAll(_, _)
RemoveAll(d, paths) ==
    IF paths = <<>> THEN Ok(d)
    ELSE Then(Unlink(d, Head(paths)), LAMBDA d1 : RemoveAll(d1, Tail(paths)))

\* a strip that removes the markers and leaves the delta directory
IbStripMarkers_KeepDelta(d, r) ==
    LET names == SortNames({n \in Listdir(d, r.cur) : StartsWith(n, BACKUP_MARKER)})
        rm == RemoveAll(d, [i \in 1..Len(names) |-> Join(r.cur, names[i])])
    IN IF rm.err # "" THEN [d |-> rm.d, run |-> Crashed(r, rm.err)]
       ELSE [d |-> rm.d, run |-> [r EXCEPT !.pc = "sync"]]

IbStripMarkers(d, r) ==
    LET names == SortNames({n \in Listdir(d, r.cur) : StartsWith(n, BACKUP_MARKER)})
        rm == RemoveAll(d, [i \in 1..Len(names) |-> Join(r.cur, names[i])])
    IN IF rm.err # "" THEN [d |-> rm.d, run |-> Crashed(r, rm.err)]
       ELSE [d |-> Rmtree(rm.d, Join(r.cur, DELTA_DIR)), run |-> [r EXCEPT !.pc = "sync"]]

\* the for loop goes to the next source, or ends
NextSource(r) ==
    IF r.idx + 1 > Len(r.sources) THEN [r EXCEPT !.idx = r.idx + 1, !.pc = "finalize"]
    ELSE [r EXCEPT !.idx = r.idx + 1]

\* an except clause that leaves the new directory where it is
IbExcept_Keep(d, r) ==
    [d |-> d, run |-> NextSource([r EXCEPT !.failed = TRUE]), rs |-> IdleRs, y |-> <<>>]

\* lines 357-360: except fs.BackupCreationError, and on to the next source
IbExcept(d, r) ==
    [d |-> Rmtree(d, r.cur), run |-> NextSource([r EXCEPT !.failed = TRUE]),
     rs |-> IdleRs, y |-> <<>>]

\* what the for statement makes of the generator's answer g to next(): the
\* loop body for a triple, the except clause, the end of the loop, or the
\* exception leaving initiate_backup
IbYielded(g, r) ==
    [i \in 1..Len(g.y) |-> << <<Basename(r.sources[r.idx])>> \o g.y[i][1], g.y[i][2] >>]

IbChanged(g, r) == IF g.y # <<>> THEN [r EXCEPT !.changed = TRUE] ELSE r

IbLoopStep(g, r, y, pbe) ==
    IF g.rs.phase = "raised"
       THEN IF g.rs.err = "BackupCreationError" THEN IbExcept(g.d, r)
            ELSE [d |-> g.d, run |-> Crashed(r, g.rs.err), rs |-> IdleRs, y |-> <<>>]
    ELSE IF pbe.err # ""
       THEN [d |-> pbe.d, run |-> Crashed(r, pbe.err), rs |-> IdleRs, y |-> y]
    ELSE IF g.rs.phase = "done"
       THEN [d |-> pbe.d, run |-> NextSource(IbChanged(g, r)), rs |-> IdleRs, y |-> y]
    ELSE [d |-> pbe.d, run |-> IbChanged(g, r), rs |-> g.rs, y |-> y]

IbLoopBody(g, r) ==
    IbLoopStep(g, r, IbYielded(g, r),
               IF g.y # <<>> /\ r.latest # <<>>
                  THEN ProcessBackedEntry(g.d, r.cur, IbYielded(g, r)[1][1], g.y[1][2])
                  ELSE Ok(g.d))

\* lines 337-346: rsync_func(src_abs, dst_abs) for the next source, up to its loops
IbSyncCall(d, r) ==
    LET src == r.sources[r.idx]
    IN IbLoopBody(RsyncBegin(d, src, Join(r.cur, Basename(src))), r)

\* a run that writes the marker whatever the run was
IbKeep_Always(r) == TRUE

\* lines 363-370: the new backup is kept, not removed
IbKeep(r) == ~r.dry /\ ~(r.latest # <<>> /\ ~r.changed)

IbMarked(r, m) ==
    IF m.err # "" THEN [d |-> m.d, run |-> Crashed(r, m.err)]
    ELSE [d |-> m.d, run |-> [r EXCEPT !.pc = "done"]]

\* a finalize step that does not look at dry_run
IbFinish_NoDry(d, r) ==
    IF ~(r.latest # <<>> /\ ~r.changed) THEN IbMarked(r, SetBackupMarker(d, r.cur))
    ELSE [d |-> Rmtree(d, r.cur), run |-> [r EXCEPT !.pc = "done"]]

\* lines 362-373
IbFinish(d, r) ==
    IF IbKeep(r) THEN IbMarked(r, SetBackupMarker(d, r.cur))
    ELSE [d |-> Rmtree(d, r.cur), run |-> [r EXCEPT !.pc = "done"]]

---------------------------------------------------------------------------
(* SpecBackup: runs of initiate_backup on one source directory, alone or    *)
(* with a missing source, one after the other, the source edited and the    *)
(* clock advancing between them                                             *)

MaxRuns == 2

\* 2021-10-20 01:02:03
StartClock == [day |-> DaysFromCivil(2021, 10, 20), sec |-> 3723]

TickClock(c, dt) ==
    IF c.sec + dt >= 86400 THEN [day |-> c.day + 1, sec |-> c.sec + dt - 86400]
    ELSE [c EXCEPT !.sec = c.sec + dt]

BackupTrees ==
    { Tree("-", "-", "-"), Tree("f", "-", "-"), Tree("f_own", "-", "-"),
      Tree("f_size", "-", "-"), Tree("f_mode", "-", "-"),
      Tree("d", "f", "-"), Tree("d_own", "f_size", "-"),
      Tree("l_none", "-", "-"), Tree("l_dir", "-", "-"), Tree("l_file", "-", "-") }

InitBackup ==
    /\ \E t \in BackupTrees :
          disk = PlantTree(PlantDir(PlantDir(EmptyDisk, BackupsDir), SrcRoot),
                           SrcRoot, t, <<>>)
    /\ clock = StartClock
    /\ run = IdleRun
    /\ rs = IdleRs
    /\ out = <<>>
    /\ procs = NoProcs /\ ret = IdleRet

\* the outcome of a step becomes the next state
SetDiskRun(b) == disk' = b.d /\ run' = b.run
SetSync(g) == disk' = g.d /\ run' = g.run /\ rs' = g.rs /\ out' = out \o g.y

\* the user changes the source directory between two runs
EditSource ==
    /\ ~RunActive /\ run.n < MaxRuns /\ run.n > 0
    /\ \E t \in BackupTrees :
          /\ disk' = PlantTree(PlantDir(Rmtree(disk, SrcRoot), SrcRoot), SrcRoot, t, <<>>)
          /\ disk' # disk
    /\ run' = [run EXCEPT !.edited = TRUE]
    /\ UNCHANGED <<clock, rs, out, procs, ret>>

\* a source path at which there is nothing
NoSrc == << <<"m">> >>

\* the sources of a run: the source directory alone, or with a source that
\* is missing after or before it
SourceLists == {<<SrcRoot>>, <<SrcRoot, NoSrc>>, <<NoSrc, SrcRoot>>}

\* initiate_backup is called, a second or no time after the run before
IbStart ==
    /\ ~RunActive /\ run.n < MaxRuns
    /\ \E dry \in BOOLEAN, dt \in {0, 1}, sources \in SourceLists :
          /\ clock' = TickClock(clock, dt)
          /\ SetDiskRun(IbBegin(disk, run, TickClock(clock, dt), dry, sources))
    /\ rs' = IdleRs
    /\ out' = <<>>
    /\ UNCHANGED <<procs, ret>>

IbHardlink ==
    /\ run.pc = "hardlink"
    /\ SetDiskRun(IbHardlinkOp(disk, run))
    /\ UNCHANGED <<clock, rs, out, procs, ret>>

\* the next system call of _recursive_hardlink fails (no space is left, the
\* file has too many links): the OSError leaves hardlink_dir and
\* initiate_backup, which has no handler for it
IbHardlinkError ==
    /\ run.pc = "hardlink"
    /\ run' = Crashed(run, "OSError")
    /\ UNCHANGED <<disk, clock, rs, out, procs, ret>>

IbStrip ==
    /\ run.pc = "strip"
    /\ SetDiskRun(IbStripMarkers(disk, run))
    /\ UNCHANGED <<clock, rs, out, procs, ret>>

IbSyncBegin ==
    /\ run.pc = "sync" /\ rs.phase = "idle"
    /\ SetSync(IbSyncCall(disk, run))
    /\ UNCHANGED <<clock, procs, ret>>

IbSyncNext ==
    /\ run.pc = "sync" /\ RsRunning(rs)
    /\ SetSync(IbLoopBody(RsyncStep(disk, rs), run))
    /\ UNCHANGED <<clock, procs, ret>>

IbFinalize ==
    /\ run.pc = "finalize"
    /\ SetDiskRun(IbFinish(disk, run))
    /\ UNCHANGED <<clock, rs, out, procs, ret>>

\* the process is terminated in the middle of a run
Kill ==
    /\ RunActive
    /\ run' = [run EXCEPT !.pc = "killed"]
    /\ rs' = IdleRs
    /\ UNCHANGED <<disk, clock, out, procs, ret>>

NextBackup ==
    \/ EditSource
    \/ IbStart
    \/ IbHardlink
    \/ IbHardlinkError
    \/ IbStrip
    \/ IbSyncBegin
    \/ IbSyncNext
    \/ IbFinalize
    \/ Kill

SpecBackup == InitBackup /\ [][NextBackup]_vars

---------------------------------------------------------------------------
(* Properties of fs.rsync, checked under SpecSync *)

\* the relative paths of the entries under root
RelPathsUnder(d, root) ==
    {RelPath(q, root) : q \in {q \in DOMAIN d.ent : StrictlyUnder(q, root)}}

Yielded(act) == {out[i][1] : i \in {j \in 1..Len(out) : out[j][2] = act}}

SyncDone == rs.phase = "done"

\* the source tree holds regular files, directories and symlinks only
SrcPlain ==
    \A rel \in RelPathsUnder(disk, SrcRoot) :
        TypeOf(disk, SrcRoot \o rel) \in {"file", "dir", "link"}

DstPlain ==
    \A rel \in RelPathsUnder(disk, DstRoot) :
        TypeOf(disk, DstRoot \o rel) \in {"file", "dir", "link"}

\* C4: after a completed rsync of a source tree of regular files, directories
\* and symlinks that yielded no ERROR, dst has exactly the relative paths of src.
C4_SamePaths ==
    (SyncDone /\ SrcPlain /\ Yielded("ERROR") = {})
        => RelPathsUnder(disk, DstRoot) = RelPathsUnder(disk, SrcRoot)

\* C5: after a completed rsync every path in dst has the type of the same path
\* in src, and every symlink in dst the target of the symlink in src.
C5_SameTypes ==
    SyncDone =>
        \A rel \in RelPathsUnder(disk, DstRoot) :
            /\ TypeOf(disk, DstRoot \o rel) = TypeOf(disk, SrcRoot \o rel)
            /\ TypeOf(disk, DstRoot \o rel) = "link" =>
                  Lstat(disk, DstRoot \o rel).target = Lstat(disk, SrcRoot \o rel).target

\* C6: after a completed rsync, a path that needed no rewrite and whose
\* permission bits or owner differed (so that UPDATE_PERM or UPDATE_OWNER was
\* yielded for it) has the permission bits and owner of the source entry.
C6_MetadataSynced ==
    SyncDone =>
        \A rel \in Yielded("UPDATE_PERM") \cup Yielded("UPDATE_OWNER") :
            /\ Lstat(disk, DstRoot \o rel).mode = Lstat(disk, SrcRoot \o rel).mode
            /\ Lstat(disk, DstRoot \o rel).owner = Lstat(disk, SrcRoot \o rel).owner

\* the relative paths the dst loop has dealt with
Processed ==
    IF rs.phase \in {"idle", "raised"} THEN {}
    ELSE RelPathsUnder(disk, DstRoot) \
            {RelPath(rs.dstList[i], DstRoot) : i \in 1..Len(rs.dstList)}

\* C7: once rsync has processed a path that is a file or symlink in both trees,
\* the dst entry and the src entry do not share an inode, and the path's
\* source inode has no link left in dst.
C7_AliasBroken ==
    \A rel \in Processed :
        (/\ Lexists(disk, SrcRoot \o rel)
         /\ TypeOf(disk, SrcRoot \o rel) \in {"file", "link"})
        => /\ disk.ent[SrcRoot \o rel] # disk.ent[DstRoot \o rel]
           /\ \A q \in DOMAIN disk.ent :
                 disk.ent[q] = disk.ent[SrcRoot \o rel] => ~Under(q, DstRoot)

\* C7's case: a dst file that was a hardlink of the src file has been rewritten
C7_Witness ==
    /\ SyncDone
    /\ rs.why = "inode"
    /\ <<rs.cur, "REWRITE">> \in SeqToSet(out)
    /\ TypeOf(disk, DstRoot \o rs.cur) = "file"
    /\ Nlink(disk, SrcRoot \o rs.cur) = 1

---------------------------------------------------------------------------
(* Properties of backup runs, under SpecBackup *)

\* the entries under directory b
EntriesUnder(d, b) == {p \in DOMAIN d.ent : StrictlyUnder(p, b)}

\* entry p of d1 is there in d2 with the same type, content, permission
\* bits, owner and group, and symlink target
SameEntry(d1, d2, p) ==
    /\ Lexists(d2, p)
    /\ Lstat(d1, p).type = Lstat(d2, p).type
    /\ Lstat(d1, p).size = Lstat(d2, p).size
    /\ Lstat(d1, p).data = Lstat(d2, p).data
    /\ Lstat(d1, p).mode = Lstat(d2, p).mode
    /\ Lstat(d1, p).owner = Lstat(d2, p).owner
    /\ Lstat(d1, p).target = Lstat(d2, p).target

\* C1: no step of a backup run changes the content, the permission bits,
\* the owner or group, or the symlink target of an entry of a backup that
\* was completed before the run.
C1_PriorBackupsKept ==
    [][\A b \in IterateBackups(disk, BackupsDir) :
          b # run'.cur => \A p \in EntriesUnder(disk, b) : SameEntry(disk, disk', p)]_vars

\* the new backup directory of the run is one its own steps made
RunMadeDir ==
    \/ RunActive
    \/ run.pc = "killed"
    \/ run.pc = "crashed" /\ run.err \notin {"RuntimeError", "FileExistsError"}

\* C3: until initiate_backup has written the new backup's own marker the
\* new directory is no backup: _iterate_backups does not yield it and
\* _get_latest_backup does not return it, also right after the copy of the
\* latest backup, marker included, and also when the run was killed.
C3_InvalidUntilMarked ==
    RunMadeDir => /\ ~IsBackup(disk, run.cur)
                  /\ run.cur \notin IterateBackups(disk, BackupsDir)
                  /\ GetLatestBackup(disk, BackupsDir) # run.cur

\* a run killed while its directory holds the marker copied from the latest
C3_Witness ==
    /\ run.pc = "killed" /\ run.latest # <<>>
    /\ Lexists(disk, Join(run.cur, MarkerName(Basename(run.latest))))
    /\ Listdir(disk, run.cur) # {MarkerName(Basename(run.latest))}

\* C8: when initiate_backup returns and the except clause was not entered,
\* the new directory exists with its own marker if and only if the run is
\* no dry run and there was no latest backup or an action was yielded;
\* otherwise the new directory is gone.
C8_MarkerIffKept ==
    (run.pc = "done" /\ ~run.failed) =>
        IF ~run.dry /\ (run.latest = <<>> \/ out # <<>>)
            THEN Exists(disk, run.cur) /\ Exists(disk, GetBackupMarker(run.cur))
            ELSE ~Lexists(disk, run.cur)

\* a second run that found changes and kept its backup
C8_Witness ==
    /\ run.pc = "done" /\ ~run.failed /\ ~run.dry
    /\ run.latest # <<>> /\ out # <<>>
    /\ IsBackup(disk, run.cur)

\* C9: a run that begins right after a run that made backup run.prev, the
\* source not edited in between, yields no action and removes its new
\* directory; the backups are those found when it began.
C9_SecondRunNoop ==
    (run.pc = "done" /\ run.prev # <<>> /\ run.latest = run.prev) =>
        /\ out = <<>>
        /\ ~Lexists(disk, run.cur)
        /\ IterateBackups(disk, BackupsDir) = run.valid

---------------------------------------------------------------------------
(* backup.set_backups_lock, backup.release_backups_lock and the calls of    *)
(* cli.main between them, one system call at a time, for the runs of        *)
(* several processes on one backups directory.  procs[p].pc is the place of *)
(* process p; the only processes are these runs and one that is gone.       *)

MaxProcs == 2

Pids == 1..MaxProcs

\* the pid of a process that ran before and exited without release
GonePid == MaxProcs + 1

LockPath == Join(BackupsDir, LOCK_FILE)

IdleProc == [pc |-> "idle", force |-> FALSE, pid |-> 0, fd |-> 0]

\* process p is in the process table
Alive(ps, p) ==
    p \in DOMAIN ps /\ ps[p].pc \notin {"idle", "refused", "crashed", "exited", "killed"}

\* _pid_exists(pid)
PidExists(ps, pid) == pid = 0 \/ Alive(ps, pid)

\* str(os.getpid()), a text of decimal digits (the pids have one digit)
PidText(p) == <<p>>

\* int(text) for a text of decimal digits
RECURSIVE IntOf(_)
IntOf(text) ==
    IF text = <<>> THEN 0
    ELSE 10 * IntOf(SubSeq(text, 1, Len(text) - 1)) + text[Len(text)]

\* open(path, "a"): the file is created, empty, unless it is there
OpenAppend(d, p) ==
    IF Lexists(d, p) THEN d
    ELSE NewEntry(d, p, [type |-> "file", size |-> 0, data |-> <<>>,
                         mtime |-> NowStamp, mode |-> 420,
                         owner |-> ProcOwner, target |-> ""])

\* f.write(text) and the close of a file opened for append
WriteAppend(d, fd, text) ==
    IF fd \in DOMAIN d.ino
        THEN [d EXCEPT !.ino[fd].data = @ \o text, !.ino[fd].size = @ + Len(text)]
        ELSE d

\* an unlinked file stays open, without a name, in the processes that had
\* opened it
Detach(ps, ino) ==
    [q \in DOMAIN ps |-> IF ps[q].fd = ino THEN [ps[q] EXCEPT !.fd = 0 - 1] ELSE ps[q]]

At(ps, p, pc) == [ps EXCEPT ![p].pc = pc]

\* cli.main is started; -f or not
LkStart ==
    \E p \in Pids, force \in BOOLEAN :
        /\ procs[p].pc = "idle"
        /\ procs' = [procs EXCEPT ![p].pc = "exists", ![p].force = force]
        /\ UNCHANGED <<disk, clock, run, rs, out, ret>>

\* line 109: if not os.path.exists(lock_file_path)
LkExists ==
    \E p \in Pids :
        /\ procs[p].pc = "exists"
        /\ procs' = At(procs, p, IF Exists(disk, LockPath) THEN "read" ELSE "open")
        /\ UNCHANGED <<disk, clock, run, rs, out, ret>>

\* line 110: open(lock_file_path, "a")
LkOpen ==
    \E p \in Pids :
        /\ procs[p].pc = "open"
        /\ disk' = OpenAppend(disk, LockPath)
        /\ procs' = [procs EXCEPT ![p].pc = "write", ![p].fd = disk'.ent[LockPath]]
        /\ UNCHANGED <<clock, run, rs, out, ret>>

\* lines 111-112: f.write(str(os.getpid())), close, return True
LkWrite ==
    \E p \in Pids :
        /\ procs[p].pc = "write"
        /\ disk' = WriteAppend(disk, procs[p].fd, PidText(p))
        /\ procs' = [procs EXCEPT ![p].pc = "locked", ![p].fd = 0]
        /\ UNCHANGED <<clock, run, rs, out, ret>>

\* lines 114-115: pid = int(open(lock_file_path, "r").read())
LkRead ==
    \E p \in Pids :
        /\ procs[p].pc = "read"
        /\ procs' = IF ~Exists(disk, LockPath) \/ Lstat(disk, LockPath).data = <<>>
                       THEN At(procs, p, "crashed")
                       ELSE [procs EXCEPT ![p].pc = "pidcheck",
                                          ![p].pid = IntOf(Lstat(disk, LockPath).data)]
        /\ UNCHANGED <<disk, clock, run, rs, out, ret>>

\* lines 117-122 without the return False: the run goes on to the unlink
LkPidCheck_Pass ==
    \E p \in Pids :
        /\ procs[p].pc = "pidcheck"
        /\ procs' = At(procs, p, IF ~PidExists(procs, procs[p].pid) \/ ~procs[p].force
                                     THEN "unlink" ELSE "kill")
        /\ UNCHANGED <<disk, clock, run, rs, out, ret>>

\* lines 117-122: if _pid_exists(pid): if not force: return False
LkPidCheck ==
    \E p \in Pids :
        /\ procs[p].pc = "pidcheck"
        /\ procs' = At(procs, p, IF ~PidExists(procs, procs[p].pid) THEN "unlink"
                                 ELSE IF procs[p].force THEN "kill" ELSE "refused")
        /\ UNCHANGED <<disk, clock, run, rs, out, ret>>

\* line 128: os.kill(pid, signal.SIGKILL)
LkKill ==
    \E p \in Pids :
        /\ procs[p].pc = "kill"
        /\ procs' = IF Alive(procs, procs[p].pid)
                       THEN [procs EXCEPT ![p].pc = "unlink",
                                          ![procs[p].pid].pc = "killed",
                                          ![procs[p].pid].fd = 0]
                       ELSE At(procs, p, "crashed")
        /\ UNCHANGED <<disk, clock, run, rs, out, ret>>

\* the process unlinks the lock file and goes to pc, or the unlink raises
UnlinkLock(p, pc) ==
    IF Lexists(disk, LockPath)
        THEN /\ disk' = Unlink(disk, LockPath).d
             /\ procs' = At(Detach(procs, disk.ent[LockPath]), p, pc)
        ELSE /\ disk' = disk
             /\ procs' = At(procs, p, "crashed")

\* lines 130-131: os.unlink(lock_file_path), return True
LkUnlink ==
    \E p \in Pids :
        /\ procs[p].pc = "unlink"
        /\ UnlinkLock(p, "locked")
        /\ UNCHANGED <<clock, run, rs, out, ret>>

\* cli.py lines 100-108: cleanup_old_backups and initiate_backup return, or
\* an exception leaves main
MainWork ==
    \E p \in Pids, returns \in BOOLEAN :
        /\ procs[p].pc = "locked"
        /\ procs' = At(procs, p, IF returns THEN "release" ELSE "crashed")
        /\ UNCHANGED <<disk, clock, run, rs, out, ret>>

\* line 137: if os.path.exists(lock_file_path)
RelExists ==
    \E p \in Pids :
        /\ procs[p].pc = "release"
        /\ procs' = At(procs, p, IF Exists(disk, LockPath) THEN "rel_unlink" ELSE "exited")
        /\ UNCHANGED <<disk, clock, run, rs, out, ret>>

\* line 138: os.unlink(lock_file_path)
RelUnlink ==
    \E p \in Pids :
        /\ procs[p].pc = "rel_unlink"
        /\ UnlinkLock(p, "exited")
        /\ UNCHANGED <<clock, run, rs, out, ret>>

\* no lock file, or the lock file a run that is gone left behind
InitLock ==
    /\ \E stale \in BOOLEAN :
          disk = IF stale
                    THEN WriteAppend(OpenAppend(PlantDir(EmptyDisk, BackupsDir), LockPath),
                                     OpenAppend(PlantDir(EmptyDisk, BackupsDir),
                                                LockPath).ent[LockPath],
                                     PidText(GonePid))
                    ELSE PlantDir(EmptyDisk, BackupsDir)
    /\ procs = [p \in Pids |-> IdleProc]
    /\ clock = IdleClock /\ run = IdleRun /\ rs = IdleRs /\ out = <<>> /\ ret = IdleRet

NextLock ==
    \/ LkStart
    \/ LkExists
    \/ LkOpen
    \/ LkWrite
    \/ LkRead
    \/ LkPidCheck
    \/ LkKill
    \/ LkUnlink
    \/ MainWork
    \/ RelExists
    \/ RelUnlink

SpecLock == InitLock /\ [][NextLock]_vars

\* C2: no two live runs are at the same time past a set_backups_lock that
\* returned True and before their release_backups_lock.
C2_MutualExclusion ==
    \A p, q \in Pids :
        (procs[p].pc = "locked" /\ procs[q].pc = "locked") => p = q

---------------------------------------------------------------------------
(* backup.cleanup_old_backups *)

\* a keep_* argument: None, or a number
KeepNone == [on |-> FALSE, n |-> 0]
Keep(n) == [on |-> TRUE, n |-> n]

\* now - timedelta(days=n)
MinusDays(c, n) == [c EXCEPT !.day = c.day - n]

\* the strftime of datetime dt with some fields replaced by their first value
FmtDay(dt) == Strftime([dt EXCEPT !.h = 0, !.mi = 0, !.s = 0])
FmtMonth(dt) == Strftime([dt EXCEPT !.d = 1, !.h = 0, !.mi = 0, !.s = 0])
FmtYear(dt) == Strftime([dt EXCEPT !.mo = 1, !.d = 1, !.h = 0, !.mi = 0, !.s = 0])

\* lines 191-217: thresholds
RetThresholds(now, k) ==
    [all |-> IF k.all.on THEN FmtDay(DateTimeOf(MinusDays(now, k.all.n)))
             ELSE Strftime(DateTimeOf(now)),
     daily |-> IF k.daily.on THEN FmtDay(DateTimeOf(MinusDays(now, k.daily.n)))
               ELSE Strftime(DateTimeOf(now)),
     weekly |-> IF k.weekly.on
                   THEN Strftime(DateTimeOf(
                            MinusDays(now, 7 * k.weekly.n + Weekday(now.day))))
                ELSE Strftime(DateTimeOf(now)),
     monthly |-> IF k.monthly.on THEN FmtMonth(DateTimeOf(MinusDays(now, 30 * k.monthly.n)))
                 ELSE Strftime(DateTimeOf(now)),
     yearly |-> IF k.yearly.on THEN FmtYear(DateTimeOf(MinusDays(now, 365 * k.yearly.n)))
                ELSE Strftime(DateTimeOf(now))]

\* _date_from_backup(backup_entry)
DateFromBackup(b) == Strptime(Basename(b))

\* lines 223-252: the first threshold the name is after, "none" when it is
\* after none of them
RetBucket(name, th) ==
    IF StrLess(th.all, name) THEN "all"
    ELSE IF StrLess(th.daily, name) THEN "daily"
    ELSE IF StrLess(th.weekly, name) THEN "weekly"
    ELSE IF StrLess(th.monthly, name) THEN "monthly"
    ELSE IF StrLess(th.yearly, name) THEN "yearly"
    ELSE "none"

\* lines 229, 237, 245, 253: the two backups are of the same day, ISO week
\* number, month or year
RetSame(bucket, pd, bd) ==
    CASE bucket = "daily" -> <<pd.y, pd.mo, pd.d>> = <<bd.y, bd.mo, bd.d>>
      [] bucket = "weekly" -> IsoWeek(DayOf(pd)) = IsoWeek(DayOf(bd))
      [] bucket = "monthly" -> <<pd.y, pd.mo>> = <<bd.y, bd.mo>>
      [] bucket = "yearly" -> pd.y = bd.y

\* a cleanup that drops both backups of a period
RetDrop_Both(prev, b) == {prev, b}

\* a cleanup that drops the older backup of a period
RetDrop_Older(prev, b) == {b}

\* lines 231, 239, 247, 255: to_remove[prev_backup] = True
RetDrop(prev, b) == {prev}

\* lines 218-259: the backups the loop marks, rest the backups still to visit
RECURSIVE RetLoop(_, _, _, _)
RECURSIVE RetVisit(_, _, _, _, _, _)
RetVisit(rest, prev, rm, th, b, bucket) ==
    IF bucket = "none" THEN RetLoop(rest, prev, rm \cup {b}, th)
    ELSE IF bucket = "all" THEN RetLoop(rest, b, rm, th)
    ELSE IF RetSame(bucket, DateFromBackup(prev), DateFromBackup(b))
        THEN RetLoop(rest, b, rm \cup RetDrop(prev, b), th)
    ELSE RetLoop(rest, b, rm, th)
RetLoop(rest, prev, rm, th) ==
    IF rest = <<>> THEN rm
    ELSE RetVisit(Tail(rest), prev, rm, th, Head(rest),
                  RetBucket(Basename(Head(rest)), th))

\* sorted(..., reverse=True)
Reversed(q) == [i \in 1..Len(q) |-> q[Len(q) + 1 - i]]

\* lines 262-267: shutil.rmtree of every marked backup
RECURSIVE RmtreeAll(_, _)
RmtreeAll(d, S) ==
    IF S = {} THEN d
    ELSE LET b == CHOOSE x \in S : TRUE IN RmtreeAll(Rmtree(d, b), S \ {b})

\* a cleanup that does not look at dry_run
RetClean_Wet(d, all, now, dry, k) ==
    IF Len(all) <= 1 THEN d
    ELSE RmtreeAll(d, RetLoop(Tail(all), all[1], {}, RetThresholds(now, k)))

\* lines 179-188 and 262-267, for the sorted backups all
RetClean(d, all, now, dry, k) ==
    IF Len(all) <= 1 \/ dry THEN d
    ELSE RmtreeAll(d, RetLoop(Tail(all), all[1], {}, RetThresholds(now, k)))

\* cleanup_old_backups(backups_dir, dry_run, keep_all, keep_daily,
\* keep_weekly, keep_monthly, keep_yearly)
CleanupOldBackups(d, now, dry, k) ==
    RetClean(d, Reversed(SortedBackups(IterateBackups(d, BackupsDir))), now, dry, k)

---------------------------------------------------------------------------
(* SpecRetention: a call of cleanup_old_backups and the same call once      *)
(* more, with every choice of the keep_* arguments, on backups directories  *)
(* holding backups of several ages                                          *)

MaxKeep == 1
MaxBackups == 3

\* keep_weekly: int = 52
KeepWeeklyDefault == 52

Keeps == {KeepNone} \cup {Keep(n) : n \in 0..MaxKeep}
WeeklyKeeps == Keeps \cup {Keep(KeepWeeklyDefault)}

\* datetime.now() of the cleanup: Wednesday 2022-10-19 01:02:03
RetNow == [day |-> DaysFromCivil(2022, 10, 19), sec |-> 3723]

\* the ages in days and the seconds of the day of the backups: two of
\* today, one each of yesterday, of this week's Monday, of last week, of
\* last month and of the same week a year ago
RetAges == {<<0, 3600>>, <<0, 60>>, <<1, 3600>>, <<2, 3600>>, <<8, 3600>>,
            <<40, 3600>>, <<365, 3600>>}

RetNames ==
    {Strftime(DateTimeOf([day |-> RetNow.day - a[1], sec |-> a[2]])) : a \in RetAges}

\* a backup as a completed run leaves it: the source's copy and the marker
PlantBackup(d, name) ==
    SetBackupMarker(PlantDir(PlantDir(d, Join(BackupsDir, name)),
                             Join(Join(BackupsDir, name), <<"s">>)),
                    Join(BackupsDir, name)).d

RECURSIVE PlantBackups(_, _)
PlantBackups(d, S) ==
    IF S = {} THEN d
    ELSE LET n == CHOOSE x \in S : TRUE IN PlantBackups(PlantBackup(d, n), S \ {n})

\* the backups directory holds the backups S and the directory t of a run
\* that was not completed; ret keeps the arguments of the call and, for the
\* properties, the backups and the paths there were when it was made
InitRetention ==
    /\ \E S \in SUBSET RetNames :
          /\ Cardinality(S) <= MaxBackups
          /\ disk = PlantDir(PlantBackups(PlantDir(EmptyDisk, BackupsDir), S),
                             Join(BackupsDir, <<"t">>))
    /\ clock = RetNow
    /\ ret = IdleRet
    /\ procs = NoProcs /\ run = IdleRun /\ rs = IdleRs /\ out = <<>>

\* the keep_* arguments of a call
KeepArgs == [all : Keeps, daily : Keeps, weekly : WeeklyKeeps, monthly : Keeps,
             yearly : Keeps]

Cleanup ==
    /\ ret.pc = "idle"
    /\ \E dry \in BOOLEAN, k \in KeepArgs :
          /\ disk' = CleanupOldBackups(disk, clock, dry, k)
          /\ ret' = [pc |-> "done", dry |-> dry, keep |-> k,
                     before |-> IterateBackups(disk, BackupsDir),
                     paths |-> DOMAIN disk.ent, mid |-> {}]
    /\ UNCHANGED <<clock, procs, run, rs, out>>

\* the same call made once more, at the same time and with the same
\* arguments; mid keeps the paths there were before it
CleanupAgain ==
    /\ ret.pc = "done"
    /\ disk' = CleanupOldBackups(disk, clock, ret.dry, ret.keep)
    /\ ret' = [ret EXCEPT !.pc = "again", !.mid = DOMAIN disk.ent]
    /\ UNCHANGED <<clock, procs, run, rs, out>>

NextRetention == Cleanup \/ CleanupAgain

SpecRetention == InitRetention /\ [][NextRetention]_vars

\* C10: after cleanup_old_backups on a directory with at least one backup,
\* whatever the keep_* arguments, at least one backup is left; when there
\* was exactly one backup nothing at all is deleted.
C10_OneBackupLeft ==
    (ret.pc = "done" /\ ret.before # {}) =>
        /\ IterateBackups(disk, BackupsDir) # {}
        /\ IterateBackups(disk, BackupsDir) \subseteq ret.before
        /\ Cardinality(ret.before) = 1 => DOMAIN disk.ent = ret.paths

\* a cleanup that removed all the backups but one
C10_Witness ==
    /\ ret.pc = "done" /\ ~ret.dry
    /\ Cardinality(ret.before) = MaxBackups
    /\ Cardinality(IterateBackups(disk, BackupsDir)) = 1

\* C11: a second cleanup_old_backups right after a first one that was not a
\* dry run, with the same keep_* arguments and the same now, deletes nothing.
C11_SecondCleanupDeletesNothing ==
    (ret.pc = "again" /\ ~ret.dry) => DOMAIN disk.ent = ret.mid

---------------------------------------------------------------------------
(* The retention properties speak of times, not of names: the time a       *)
(* backup's name stands for, and the cutoffs of the tiers as clock values  *)

StampAt(dt) == [day |-> DayOf(dt), sec |-> 3600 * dt.h + 60 * dt.mi + dt.s]
StampOf(b) == StampAt(DateFromBackup(b))

\* clock value a is later than clock value b
Later(a, b) == a.day > b.day \/ (a.day = b.day /\ a.sec > b.sec)

\* the start of the day n days before now
DayCutoff(now, n) == [day |-> now.day - n, sec |-> 0]

\* the backups there are
Survivors == IterateBackups(disk, BackupsDir)

\* a first cleanup that was no dry run has returned
Cleaned == ret.pc = "done" /\ ~ret.dry

\* C12: with keep_all given, every backup whose time is later than the all
\* cutoff, the start of the day keep_all days before now, is still there
\* after the cleanup.
C12_AllWindowKept ==
    (Cleaned /\ ret.keep.all.on) =>
        \A b \in ret.before :
            Later(StampOf(b), DayCutoff(clock, ret.keep.all.n)) => b \in Survivors

\* C13: with keep_daily given, of every calendar day later than the daily
\* cutoff, the start of the day keep_daily days before now, on which there
\* was a backup, at least one backup is still there after the cleanup.
C13_DailyWindowKept ==
    (Cleaned /\ ret.keep.daily.on) =>
        \A b \in ret.before :
            Later(StampOf(b), DayCutoff(clock, ret.keep.daily.n)) =>
                \E s \in Survivors : StampOf(s).day = StampOf(b).day

\* the tiers after all, in the order they are tried
Tiers == <<"daily", "weekly", "monthly", "yearly">>

\* the first day of the month and of the year of a day
MonthStartOf(cd) == DaysFromCivil(cd.y, cd.mo, 1)
YearStartOf(cd) == DaysFromCivil(cd.y, 1, 1)

\* The cutoff of a tier with n given: the start of the day n days before
\* now; the start of the week n weeks before this week; the first of the
\* month of the day 30n days before now; the first of January of the year
\* of the day 365n days before now.
CutoffDay(tier, now, n) ==
    CASE tier \in {"all", "daily"} -> now.day - n
      [] tier = "weekly" -> now.day - 7 * n - Weekday(now.day)
      [] tier = "monthly" -> MonthStartOf(CivilFromDays(now.day - 30 * n))
      [] tier = "yearly" -> YearStartOf(CivilFromDays(now.day - 365 * n))

\* the cutoff of a tier; the cutoff of a tier that is not given is now
TierCutoff(tier, now, k) ==
    IF k[tier].on THEN [day |-> CutoffDay(tier, now, k[tier].n), sec |-> 0] ELSE now

\* the cutoff the cleanup compares the names with: the weekly one keeps the
\* time of day of now
ComputedCutoff(tier, now, k) ==
    IF tier = "weekly" /\ k[tier].on
        THEN [day |-> CutoffDay(tier, now, k[tier].n), sec |-> now.sec]
    ELSE TierCutoff(tier, now, k)

\* backup b is inside the window of the tier
InWindow(b, tier) == Later(StampOf(b), TierCutoff(tier, clock, ret.keep))

\* the bucket keys of backups x and y for the tier are equal: the date, the
\* ISO week number, the year and month, the year
SameKey(tier, x, y) == RetSame(tier, DateFromBackup(x), DateFromBackup(y))

\* backup b is later than the computed cutoff of Tiers[i] and not later
\* than the computed cutoffs of all and of the tiers before it
ClassifiedIn(b, i) ==
    /\ Later(StampOf(b), ComputedCutoff(Tiers[i], clock, ret.keep))
    /\ ~Later(StampOf(b), ComputedCutoff("all", clock, ret.keep))
    /\ \A j \in 1..(i - 1) : ~Later(StampOf(b), ComputedCutoff(Tiers[j], clock, ret.keep))

\* backup z is x, y or a backup between them in time
FromTo(z, x, y) == ~Later(StampOf(z), StampOf(x)) /\ ~Later(StampOf(y), StampOf(z))

SamePeriod(tier, x, y) ==
    CASE tier = "daily" -> StampOf(x).day = StampOf(y).day
      [] tier = "weekly" ->
            StampOf(x).day - Weekday(StampOf(x).day)
                = StampOf(y).day - Weekday(StampOf(y).day)
      [] tier = "monthly" -> MonthStartOf(DateFromBackup(x)) = MonthStartOf(DateFromBackup(y))
      [] tier = "yearly" -> DateFromBackup(x).y = DateFromBackup(y).y

\* the tier is given and no other one is
OnlyTier(tier) ==
    /\ ret.keep[tier].on
    /\ \A t \in {"all", "daily", "weekly", "monthly", "yearly"} \ {tier} : ~ret.keep[t].on

\* the oldest backup of each period inside the window of the tier
OldestOfPeriods(tier) ==
    {b \in ret.before :
        /\ InWindow(b, tier)
        /\ \A z \in ret.before :
              (InWindow(z, tier) /\ SamePeriod(tier, b, z)) => ~Later(StampOf(b), StampOf(z))}

\* C15: when exactly one of keep_daily, keep_weekly, keep_monthly and
\* keep_yearly is given, keep_all is not, and some backup is inside the
\* window, the backups left by the cleanup are exactly the oldest backup of
\* each day, ISO week, month or year inside the window.
C15_OneTierOldestOfEach ==
    Cleaned =>
        \A i \in 1..Len(Tiers) :
            (OnlyTier(Tiers[i]) /\ \E b \in ret.before : InWindow(b, Tiers[i]))
                => Survivors = OldestOfPeriods(Tiers[i])

\* C16: with keep_weekly = N the weekly window begins with the Monday of
\* the week N weeks before this week, at any time of day of now: when there
\* is a backup of that Monday, the oldest backup of that week is still there
\* after the cleanup.
C16_WeekStartInclusive ==
    (Cleaned /\ ret.keep.weekly.on) =>
        \A b \in ret.before :
            StampOf(b).day = CutoffDay("weekly", clock, ret.keep.weekly.n) =>
                \A z \in ret.before :
                    (/\ SamePeriod("weekly", z, b)
                     /\ \A w \in ret.before :
                           SamePeriod("weekly", w, b) => ~Later(StampOf(z), StampOf(w)))
                        => z \in Survivors

---------------------------------------------------------------------------
(* SpecBackup: failures of a run and the delta directory *)

\* the copy of the latest backup failed: an error left _recursive_hardlink
\* with system calls still to make
CopyFailed == run.pc = "crashed" /\ run.hl # <<>>

\* C17: when the copy of the latest backup into the new directory fails, the
\* new directory is deleted: no partly copied directory is left, no source
\* is synced and no marker is written.
C17_FailedCopyRemoved ==
    CopyFailed => ~Lexists(disk, run.cur)

\* C18: once the sync of a source has failed with BackupCreationError, the
\* new directory is gone and stays gone for the rest of the run: no later
\* source of the run is synced into it and the run leaves no backup of its
\* own, with or without a marker.
C18_FailedSyncRemoved ==
    run.failed =>
        /\ ~Lexists(disk, run.cur)
        /\ ~RsRunning(rs)
        /\ run.cur \notin IterateBackups(disk, BackupsDir)

\* a run whose first source was missing and that went on to its second
\* source, where fs.rsync could not make its directory
C18_Witness ==
    /\ run.failed /\ run.pc = "crashed" /\ run.idx = 2
    /\ run.sources = <<NoSrc, SrcRoot>>

\* the delta directory of the new backup
DeltaRoot == Join(run.cur, DELTA_DIR)

\* the triple the loop body handled last
LastOut == out[Len(out)]

\* the loop over the sources is at work, or over, and handled a triple
InLoop == run.pc \in {"sync", "finalize"} /\ ~run.failed /\ out # <<>>

\* C19: the path of every triple whose action is not DELETE or ERROR is in
\* the delta directory of the new backup once the loop body has handled it,
\* in a first run as in any other.
C19_ActionRecorded ==
    (InLoop /\ LastOut[2] \notin {"DELETE", "ERROR"}) =>
        Lexists(disk, DeltaRoot \o LastOut[1])

\* fs.nest_hardlink has just recorded a file or a symlink of the new backup
RecordedFile ==
    /\ InLoop /\ run.latest # <<>>
    /\ LastOut[2] \notin {"DELETE", "ERROR"}
    /\ TypeOf(disk, run.cur \o LastOut[1]) \in {"file", "link"}

\* C20: after fs.nest_hardlink has recorded a file or a symlink, the path in
\* the delta directory and the path in the new backup are the same inode:
\* the delta directory holds no second copy of the content.
C20_DeltaSharesInode ==
    RecordedFile =>
        /\ Lexists(disk, DeltaRoot \o LastOut[1])
        /\ disk.ent[DeltaRoot \o LastOut[1]] = disk.ent[run.cur \o LastOut[1]]

\* fs.hardlink_dir(latest, new directory) has returned True and nothing was
\* done to the new directory since
CopyDone == run.pc = "strip"

\* the entries under root that name the inode of path p
LinksUnder(d, root, p) == {q \in EntriesUnder(d, root) : d.ent[q] = d.ent[p]}

---------------------------------------------------------------------------
(* SpecLock: the lock file of a run that is gone, and of a run that lives *)

\* C22: a set_backups_lock without force, called while the lock file holds
\* the pid of the run that was gone before any of the runs started, returns
\* True, and the lock file is removed.
C22_StaleLockRemoved ==
    [][\A p \in Pids :
          (/\ procs[p].pc = "unlink"
           /\ ~procs[p].force
           /\ procs[p].pid = GonePid
           /\ procs'[p].pc \notin {"unlink", "killed"})
              => (procs'[p].pc = "locked" /\ ~Lexists(disk', LockPath))]_vars

\* C23: a set_backups_lock without force that finds the pid of the lock file
\* alive returns False and leaves the lock file as it is, and the run that
\* got False does nothing more: it deletes and creates nothing and leaves
\* the lock file.
C23_LiveLockRefuses ==
    [][\A p \in Pids :
          /\ (/\ procs[p].pc = "pidcheck"
              /\ ~procs[p].force
              /\ PidExists(procs, procs[p].pid)
              /\ procs'[p].pc \notin {"pidcheck", "killed"})
                 => (procs'[p].pc = "refused" /\ disk' = disk)
          /\ procs[p].pc = "refused" => procs'[p] = procs[p]]_vars

\* a run was refused and the lock file still holds the pid of the live run
C23_Witness ==
    \E p, q \in Pids :
        /\ procs[p].pc = "refused"
        /\ procs[q].pc = "locked"
        /\ Lexists(disk, LockPath)
        /\ Lstat(disk, LockPath).data = PidText(q)

---------------------------------------------------------------------------
(* SpecMain: one call of cli.main from its checks to its return, alone on  *)
(* the machine but for one other run that holds the lock, has left a lock   *)
(* file behind, or was never there.  procs[MainPid] is the run, with its    *)
(* arguments and the filesystem it was started on; procs[OtherPid] is the   *)
(* other run.                                                               *)

MainPid == 1
OtherPid == 2

\* SUPPORTED_PLATFORMS = ("linux", "darwin")
SUPPORTED_PLATFORMS == {"linux", "darwin"}

\* sys.platform
Platforms == {"linux", "win32"}

\* checks that forget the sources
ArgsOk_NoSources(d, platform, sources) ==
    platform \in SUPPORTED_PLATFORMS /\ KindOf(d, BackupsDir) = "dir"

\* cli.py lines 68-95: none of the checks returns 1
ArgsOk(d, platform, sources) ==
    /\ platform \in SUPPORTED_PLATFORMS
    /\ KindOf(d, BackupsDir) = "dir"
    /\ \A i \in 1..Len(sources) : KindOf(d, sources[i]) = "dir"

\* set_backups_lock(backups_dir, force) of process me, from call to return:
\* the filesystem and the process table after it, and how it ended
SetBackupsLock(d, ps, me, force) ==
    IF ~Exists(d, LockPath)
        THEN [d |-> WriteAppend(OpenAppend(d, LockPath),
                                OpenAppend(d, LockPath).ent[LockPath], PidText(me)),
              ps |-> ps, pc |-> "locked"]
    ELSE IF Lstat(d, LockPath).data = <<>>
        THEN [d |-> d, ps |-> ps, pc |-> "crashed"]
    ELSE IF ~PidExists(ps, IntOf(Lstat(d, LockPath).data))
        THEN [d |-> Unlink(d, LockPath).d, ps |-> ps, pc |-> "locked"]
    ELSE IF ~force
        THEN [d |-> d, ps |-> ps, pc |-> "refused"]
    ELSE [d |-> Unlink(d, LockPath).d,
          ps |-> At(ps, IntOf(Lstat(d, LockPath).data), "killed"),
          pc |-> "locked"]

\* release_backups_lock(backups_dir)
ReleaseBackupsLock(d) == IF Exists(d, LockPath) THEN Unlink(d, LockPath).d ELSE d

\* keep_all=7, keep_daily=30, keep_weekly=52, keep_monthly=12, keep_yearly=5
DefaultKeeps ==
    [all |-> Keep(7), daily |-> Keep(30), weekly |-> Keep(KeepWeeklyDefault),
     monthly |-> Keep(12), yearly |-> Keep(5)]

IdleMain ==
    [pc |-> "idle", force |-> FALSE, pid |-> 0, fd |-> 0, platform |-> "",
     dry |-> FALSE, sources |-> <<>>, start |-> EmptyDisk]

\* the backups there may be when the run starts: one of today and two of
\* one day of last week
MainAges == {<<0, 3600>>, <<8, 3600>>, <<8, 60>>}

MainNames ==
    {Strftime(DateTimeOf([day |-> RetNow.day - a[1], sec |-> a[2]])) : a \in MainAges}

MainTrees == {NoTree, Tree("f", "-", "-"), Tree("d", "f", "-")}

LockKinds == {"none", "stale", "live"}

\* the lock file the other run wrote
PlantLock(d, lk) ==
    IF lk = "none" THEN d
    ELSE WriteAppend(OpenAppend(d, LockPath), OpenAppend(d, LockPath).ent[LockPath],
                     PidText(OtherPid))

\* the name of a directory that is no backup: of the day of last week,
\* newer than the backups of that day
JunkStamp == Strftime(DateTimeOf([day |-> RetNow.day - 8, sec |-> 7200]))

\* what it lacks of a backup: the marker (none, or the marker of another
\* directory, as the copy of a backup holds it before line 325), an entry
\* besides the marker, or a name that is a date (the month is 13)
JunkKinds == {"nomarker", "othermarker", "empty", "name"}

JunkName(name, jk) == IF jk = "name" THEN [name EXCEPT ![5] = "1", ![6] = "3"] ELSE name

PlantJunk(d, name, jk) ==
    CASE jk = "nomarker" ->
            PlantDir(PlantDir(d, Join(BackupsDir, name)),
                     Join(Join(BackupsDir, name), <<"s">>))
      [] jk = "othermarker" ->
            TouchFile(PlantDir(PlantDir(d, Join(BackupsDir, name)),
                               Join(Join(BackupsDir, name), <<"s">>)),
                      Join(Join(BackupsDir, name), MarkerName(<<"t">>))).d
      [] jk = "empty" ->
            SetBackupMarker(PlantDir(d, Join(BackupsDir, name)),
                            Join(BackupsDir, name)).d
      [] jk = "name" -> PlantBackup(d, JunkName(name, jk))

\* the source directory with tree t; at the place of the backups directory
\* nothing, a file, or a directory with the backups S, the directory t of a
\* run that was not completed, the directory of kind jk and the lock file
MainDisk(rk, S, lk, t, jk) ==
    IF rk = "d"
        THEN PlantLock(PlantJunk(PlantDir(PlantBackups(PlantDir(PlantTree(PlantDir(EmptyDisk, SrcRoot),
                                                                          SrcRoot, t, <<>>),
                                                                BackupsDir), S),
                                          Join(BackupsDir, <<"t">>)),
                                 JunkStamp, jk), lk)
        ELSE Plant(PlantTree(PlantDir(EmptyDisk, SrcRoot), SrcRoot, t, <<>>),
                   BackupsDir, rk, <<>>)

InitMain ==
    /\ \E rk \in RootKinds, S \in SUBSET MainNames, lk \in LockKinds, t \in MainTrees,
          jk \in JunkKinds :
          /\ rk # "d" => (S = {} /\ lk = "none" /\ jk = "name")
          /\ disk = MainDisk(rk, S, lk, t, jk)
          /\ procs = <<IdleMain,
                       [IdleProc EXCEPT !.pc = IF lk = "live" THEN "locked" ELSE "exited"]>>
    /\ clock = RetNow
    /\ run = IdleRun /\ rs = IdleRs /\ out = <<>> /\ ret = IdleRet

\* cli.py lines 62-95: the arguments are parsed and checked
MnStart ==
    /\ procs[MainPid].pc = "idle"
    /\ \E platform \in Platforms, force \in BOOLEAN, dry \in BOOLEAN,
          sources \in SourceLists :
          procs' = [procs EXCEPT ![MainPid] =
                       [@ EXCEPT !.pc = IF ArgsOk(disk, platform, sources)
                                           THEN "lock" ELSE "refused",
                                 !.platform = platform, !.force = force,
                                 !.dry = dry, !.sources = sources, !.start = disk]]
    /\ UNCHANGED <<disk, clock, run, rs, out, ret>>

\* cli.py lines 96-97: if not backup.set_backups_lock(...): return 1
MnLock ==
    /\ procs[MainPid].pc = "lock"
    /\ disk' = SetBackupsLock(disk, procs, MainPid, procs[MainPid].force).d
    /\ procs' = At(SetBackupsLock(disk, procs, MainPid, procs[MainPid].force).ps, MainPid,
                   SetBackupsLock(disk, procs, MainPid, procs[MainPid].force).pc)
    /\ UNCHANGED <<clock, run, rs, out, ret>>

\* cli.py lines 100-101: backup.cleanup_old_backups(backups_dir, dry_run)
MnCleanup ==
    /\ procs[MainPid].pc = "locked"
    /\ disk' = CleanupOldBackups(disk, clock, procs[MainPid].dry, DefaultKeeps)
    /\ procs' = At(procs, MainPid, "backup")
    /\ ret' = [pc |-> "done", dry |-> procs[MainPid].dry, keep |-> DefaultKeeps,
               before |-> IterateBackups(disk, BackupsDir),
               paths |-> DOMAIN disk.ent, mid |-> {}]
    /\ UNCHANGED <<clock, run, rs, out>>

\* cli.py lines 102-108: backup.initiate_backup(...) is called
MnBackup ==
    /\ procs[MainPid].pc = "backup" /\ run.pc = "idle"
    /\ SetDiskRun(IbBegin(disk, run, clock, procs[MainPid].dry, procs[MainPid].sources))
    /\ rs' = IdleRs
    /\ out' = <<>>
    /\ UNCHANGED <<clock, procs, ret>>

\* initiate_backup returns to main, or its exception leaves main
MnBackupEnd ==
    /\ procs[MainPid].pc = "backup" /\ run.pc \in {"done", "crashed"}
    /\ procs' = At(procs, MainPid, IF run.pc = "done" THEN "release" ELSE "crashed")
    /\ UNCHANGED <<disk, clock, run, rs, out, ret>>

\* cli.py lines 109-114: backup.release_backups_lock(backups_dir), return 0
MnRelease ==
    /\ procs[MainPid].pc = "release"
    /\ disk' = ReleaseBackupsLock(disk)
    /\ procs' = At(procs, MainPid, "exited")
    /\ UNCHANGED <<clock, run, rs, out, ret>>

NextMain ==
    \/ MnStart
    \/ MnLock
    \/ MnCleanup
    \/ MnBackup
    \/ IbHardlink
    \/ IbHardlinkError
    \/ IbStrip
    \/ IbSyncBegin
    \/ IbSyncNext
    \/ IbFinalize
    \/ MnBackupEnd
    \/ MnRelease

SpecMain == InitMain /\ [][NextMain]_vars

\* C24: a run that has the lock goes from it to the retention pruning, from
\* there through initiate_backup to the release of the lock and from there
\* to its return, in this order; however initiate_backup ended, the release
\* is the step after it.
C24_LockedRunReleases ==
    [][/\ procs[MainPid].pc = "locked" => procs'[MainPid].pc \in {"locked", "backup"}
       /\ procs[MainPid].pc = "backup" => procs'[MainPid].pc \in {"backup", "release"}
       /\ procs[MainPid].pc = "release" => procs'[MainPid].pc \in {"release", "exited"}]_vars

\* the run was started on a platform that is not supported, without a
\* directory at the place of the backups directory or of one of the sources,
\* or without force while the other run lives and the lock file holds its pid
PreconditionFails(m) ==
    \/ m.platform \notin SUPPORTED_PLATFORMS
    \/ KindOf(m.start, BackupsDir) # "dir"
    \/ \E i \in 1..Len(m.sources) : KindOf(m.start, m.sources[i]) # "dir"
    \/ /\ ~m.force
       /\ Exists(m.start, LockPath)
       /\ Lstat(m.start, LockPath).data = PidText(OtherPid)
       /\ procs[OtherPid].pc = "locked"

\* C25: a run started with one of the four preconditions failing returns
\* with an error, and at no time of the run is the filesystem another than
\* the one it started on: no lock file is written, no backup removed, no
\* directory made.
C25_FailedPreconditionTouchesNothing ==
    (procs[MainPid].pc # "idle" /\ PreconditionFails(procs[MainPid])) =>
        /\ procs[MainPid].pc \in {"lock", "refused"}
        /\ procs[MainPid].pc = "lock" => ArgsOk(disk, procs[MainPid].platform,
                                                procs[MainPid].sources)
        /\ disk = procs[MainPid].start

\* the run returned because the other run holds the lock, on a backups
\* directory with backups
C25_Witness ==
    /\ procs[MainPid].pc = "refused"
    /\ ArgsOk(disk, procs[MainPid].platform, procs[MainPid].sources)
    /\ PreconditionFails(procs[MainPid])
    /\ Cardinality(IterateBackups(disk, BackupsDir)) = 3

---------------------------------------------------------------------------
(* SpecSync: failures of a call of fs.rsync *)

\* the checks of lines 253-262 find the roots good
RootsGood(d) ==
    KindOf(d, SrcRoot) = "dir" /\ (Exists(d, DstRoot) => KindOf(d, DstRoot) = "dir")

\* C26: no failure of a system call on an entry leaves a call of fs.rsync
\* as an exception: a sync of a source directory into a directory, or into
\* a place where there is nothing, is never ended by a raise.
C26_EntryFailureReported ==
    rs.phase = "raised" => ~RootsGood(disk)

\* C27: a call of fs.rsync with no directory at src, or with something that
\* is no directory at dst, raises BackupCreationError, yields no triple and
\* leaves the filesystem as it was.
C27_BadRootsRaise ==
    [][~RootsGood(disk) =>
          /\ rs'.phase = "raised"
          /\ rs'.err = "BackupCreationError"
          /\ out' = <<>>
          /\ disk' = disk]_vars

\* the call was made with a file at dst and a source directory with entries
C27_Witness ==
    /\ rs.phase = "raised"
    /\ KindOf(disk, SrcRoot) = "dir"
    /\ ChildrenOf(disk, SrcRoot) # {}
    /\ TypeOf(disk, DstRoot) = "file"

\* the directories in the backups directory of filesystem d
SnapshotDirs(d) == {p \in ChildrenOf(d, BackupsDir) : TypeOf(d, p) = "dir"}

\* the run went with dry_run through cleanup_old_backups and initiate_backup
DryRunDone ==
    procs[MainPid].pc \in {"release", "exited"} /\ procs[MainPid].dry

\* C28: after a run with dry_run that went through the retention pass and
\* initiate_backup, the backups directory holds the directories it held when
\* the run started, no other, and each is a backup if and only if it was
\* one.
C28_DryRunLeavesSnapshots ==
    DryRunDone =>
        /\ SnapshotDirs(disk) = SnapshotDirs(procs[MainPid].start)
        /\ \A p \in SnapshotDirs(disk) :
              IsBackup(disk, p) <=> IsBackup(procs[MainPid].start, p)

\* such a run, on a backups directory of which the retention pass without
\* dry_run removes a backup, and with a sync that changed the copy of the
\* latest backup
C28_Witness ==
    /\ DryRunDone
    /\ run.latest # <<>> /\ run.changed
    /\ SnapshotDirs(CleanupOldBackups(procs[MainPid].start, clock, FALSE, DefaultKeeps))
          # SnapshotDirs(procs[MainPid].start)
    /\ \E p \in SnapshotDirs(disk) : ~IsBackup(disk, p)

---------------------------------------------------------------------------
(* SpecRetention: the dry run, and what counts as a backup *)

\* lines 179-263: the backups with do_delete set when the last loop begins,
\* those a call with dry_run logs as "Would remove old backup"
RetSelected(d, now, k) ==
    IF Len(SortedBackups(IterateBackups(d, BackupsDir))) <= 1 THEN {}
    ELSE RetLoop(Tail(Reversed(SortedBackups(IterateBackups(d, BackupsDir)))),
                 Reversed(SortedBackups(IterateBackups(d, BackupsDir)))[1], {},
                 RetThresholds(now, k))

\* C29: a cleanup_old_backups with dry_run removes nothing, whatever the
\* keep_* arguments, and the backups it selects are the backups the call
\* without dry_run, at the same time with the same arguments, removes.
C29_DryCleanupSelectsOnly ==
    (ret.pc = "done" /\ ret.dry) =>
        /\ DOMAIN disk.ent = ret.paths
        /\ RetSelected(disk, clock, ret.keep)
              = ret.before \ IterateBackups(CleanupOldBackups(disk, clock, FALSE, ret.keep),
                                            BackupsDir)
        /\ \A p \in RetSelected(disk, clock, ret.keep) :
              ~Lexists(CleanupOldBackups(disk, clock, FALSE, ret.keep), p)

\* a dry run that selected two backups
C29_Witness ==
    /\ ret.pc = "done" /\ ret.dry
    /\ Cardinality(RetSelected(disk, clock, ret.keep)) = 2

---------------------------------------------------------------------------
(* SpecMain: the directories a run takes for backups *)

\* the name of directory p is a date of the format, p holds the marker of
\* its own name, and something else
CompleteSnapshot(d, p) ==
    /\ Strptime(Basename(p)).ok
    /\ Lexists(d, Join(p, MarkerName(Basename(p))))
    /\ \E n \in Listdir(d, p) : n # MarkerName(Basename(p))

\* the filesystem d without the directories of the backups directory that
\* lack one of the three
WithoutIncomplete(d) ==
    RmtreeAll(d, {p \in SnapshotDirs(d) : ~CompleteSnapshot(d, p)})

\* the backups of the start that are still there
Remaining(m) ==
    {p \in SnapshotDirs(m.start) : CompleteSnapshot(m.start, p) /\ Lexists(disk, p)}

\* C30: a directory of the backups directory whose name is no date of the
\* format, that lacks the marker of its own name, or that holds nothing but
\* that marker is never the latest backup a run copies and is never removed
\* by the retention pass, and the retention pass removes what it would
\* remove were the directory not there.
C30_OnlyCompleteSnapshotsUsed ==
    procs[MainPid].pc # "idle" =>
        /\ \A p \in SnapshotDirs(procs[MainPid].start) :
              ~CompleteSnapshot(procs[MainPid].start, p) => p \in SnapshotDirs(disk)
        /\ run.latest # <<>> => CompleteSnapshot(procs[MainPid].start, run.latest)
        /\ ret.pc = "done" =>
              Remaining(procs[MainPid])
                 = IterateBackups(CleanupOldBackups(WithoutIncomplete(procs[MainPid].start),
                                                    clock, procs[MainPid].dry, DefaultKeeps),
                                  BackupsDir)

\* the retention pass removed a backup and the run copied the latest of
\* those left, with a directory in the backups directory that is newer than
\* that backup and holds its own marker and nothing else
C30_Witness ==
    /\ run.latest # <<>>
    /\ run.pc = "done"
    /\ Remaining(procs[MainPid]) # IterateBackups(procs[MainPid].start, BackupsDir)
    /\ StrLess(Basename(run.latest), JunkStamp)
    /\ Listdir(disk, Join(BackupsDir, JunkStamp)) = {MarkerName(JunkStamp)}

---------------------------------------------------------------------------
(* SpecHardlink: one call fs.hardlink_dir(SrcRoot, DstRoot) on every source *)
(* tree, with nothing, a file or a directory at either root, one system     *)
(* call at a time.  run.pc is "hardlink" inside _recursive_hardlink,         *)
(* "strip" after the call returned True, "crashed" after it raised.          *)

\* the source trees, and trees with a socket inside a directory or after
\* other entries
HlTrees ==
    SrcTrees \cup {Tree("d", "sock", "-"), Tree("f", "-", "sock"), Tree("d", "f", "sock")}

InitHardlink ==
    /\ \E sr \in RootKinds, dr \in RootKinds, st \in HlTrees :
          /\ sr # "d" => st = NoTree
          /\ disk = SyncDisk(sr, st, dr, NoTree)
    /\ run = IdleRun
    /\ rs = IdleRs /\ out = <<>>
    /\ clock = IdleClock /\ procs = NoProcs /\ ret = IdleRet

\* lines 476-497 up to the first system call of _recursive_hardlink
HlBegin ==
    /\ run.pc = "idle"
    /\ SetDiskRun(IbBeginDir([run EXCEPT !.latest = SrcRoot, !.cur = DstRoot, !.n = 1],
                             HardlinkDirBegin(disk, SrcRoot, DstRoot)))
    /\ UNCHANGED <<clock, rs, out, procs, ret>>

\* _recursive_hardlink has nothing to copy and returns True
HlEmpty ==
    /\ run.pc = "hardlink" /\ run.hl = <<>>
    /\ run' = [run EXCEPT !.pc = "strip"]
    /\ UNCHANGED <<disk, clock, rs, out, procs, ret>>

HlStep == run.hl # <<>> /\ IbHardlink

NextHardlink == HlBegin \/ HlEmpty \/ HlStep

SpecHardlink == InitHardlink /\ [][NextHardlink]_vars

\* there is, under directory root, something that is no file, directory or
\* symlink
HasUnsupported(d, root) ==
    \E p \in EntriesUnder(d, root) : TypeOf(d, p) \notin {"file", "dir", "link"}

\* C31: a hardlink_dir of a tree with an entry that is no regular file,
\* directory or symlink does not return True: once the call is over it has
\* raised; and a call that returned True left no path of src without its
\* counterpart in dst.
C31_UnsupportedEntryFatal ==
    /\ (run.pc \in {"strip", "crashed"} /\ HasUnsupported(disk, SrcRoot))
          => (run.pc = "crashed" /\ run.err \in {"NotImplementedError", "RuntimeError"})
    /\ run.pc = "strip" => RelPathsUnder(disk, DstRoot) = RelPathsUnder(disk, SrcRoot)

\* the call raised for a socket that is, in the listing of src, after a
\* file that was linked
C31_Witness ==
    /\ run.pc = "crashed" /\ run.err = "NotImplementedError"
    /\ TypeOf(disk, Join(SrcRoot, NameC)) = "sock"
    /\ TypeOf(disk, Join(DstRoot, NameA)) = "file"

\* C32: a hardlink_dir called with no directory at src, or with anything at
\* dst, raises and leaves the filesystem as it was.
C32_BadArgumentsRaise ==
    [][(run.pc = "idle" /\ (KindOf(disk, SrcRoot) # "dir" \/ Exists(disk, DstRoot))) =>
          (run'.pc = "crashed" /\ run'.err = "RuntimeError" /\ disk' = disk)]_vars

\* the call was made with a source directory with entries and an empty
\* directory at dst
C32_Witness ==
    /\ run.pc = "crashed"
    /\ ChildrenOf(disk, SrcRoot) # {}
    /\ TypeOf(disk, DstRoot) = "dir"
    /\ ChildrenOf(disk, DstRoot) = {}

\* in a backup run: a call of initiate_backup that finds something at the
\* path of the new backup raises and leaves the filesystem as it was
NewPathTaken ==
    [][(~RunActive /\ run'.n = run.n + 1 /\ Lexists(disk, run'.cur)) =>
          (run'.pc = "crashed" /\ disk' = disk)]_vars

\* a run that had a latest backup is over and has kept its new backup
KeptRun ==
    /\ run.pc = "done" /\ run.latest # <<>> /\ ~run.failed
    /\ IbKeep(run) /\ KindOf(disk, run.cur) = "dir"

\* C33: at the end of a run that had a latest backup and keeps its new one,
\* the delta directory has an entry at the path of every triple the run
\* handled whose action is not DELETE or ERROR: recording a later triple
\* removes no entry recorded before.
C33_DeltaKeepsEntries ==
    KeptRun =>
        \A i \in 1..Len(out) :
            out[i][2] \notin {"DELETE", "ERROR"} => Lexists(disk, DeltaRoot \o out[i][1])

---------------------------------------------------------------------------
(* SpecLock: what a successful set_backups_lock leaves in the backups      *)
(* directory, and whose lock file release_backups_lock removes             *)

\* process p runs alone: no other run was started
RunsAlone(p) == \A q \in Pids \ {p} : procs[q].pc = "idle"

\* the lock file is there and holds the pid of process p
HoldsLock(d, p) == Exists(d, LockPath) /\ Lstat(d, LockPath).data = PidText(p)

\* C34: from the return of a successful set_backups_lock to the call of
\* release_backups_lock by the same run, the lock file is in the backups
\* directory and holds the pid of the run, whether the run found no lock
\* file, the lock file of a process that is gone, or forced its way.
C34_LockHeldWhileLocked ==
    \A p \in Pids : (procs[p].pc = "locked" /\ RunsAlone(p)) => HoldsLock(disk, p)

\* the step removes the lock file that holds the pid of the live run q
LosesLock(q) ==
    /\ HoldsLock(disk, q) /\ Alive(procs, q)
    /\ ~Lexists(disk', LockPath)

\* the step is the os.unlink of a set_backups_lock called with force
ForcedOverride == \E p \in Pids : procs[p].pc = "unlink" /\ procs[p].force /\ procs'[p].pc = "locked"

\* C35: in every interleaving of runs, the lock file that holds the pid of
\* a live run is removed only by the release_backups_lock of that run or by
\* a forced override; the release_backups_lock of another run never removes
\* it.
C35_ReleaseRemovesOwnLock ==
    [][\A q \in Pids :
          LosesLock(q) => (procs[q].pc = "rel_unlink" \/ ForcedOverride)]_vars

---------------------------------------------------------------------------
(* SpecSources: runs of initiate_backup with two sources, directories that *)
(* exist, whose basenames differ or are the same                           *)

\* a directory that holds the second source
OtherSrc == << <<"t">> >>

\* a second source with the basename of SrcRoot
SameNameSrc == Join(OtherSrc, Basename(SrcRoot))

SourcePairs == {<<SrcRoot, OtherSrc>>, <<SrcRoot, SameNameSrc>>, <<SameNameSrc, SrcRoot>>}

PairTrees == {NoTree, Tree("f", "-", "-"), Tree("f_size", "-", "-"), Tree("-", "-", "f")}

InitSources ==
    /\ \E t1 \in PairTrees, t2 \in PairTrees :
          disk = PlantTree(PlantDir(PlantDir(PlantTree(PlantDir(PlantDir(EmptyDisk, BackupsDir),
                                                                SrcRoot),
                                                       SrcRoot, t1, <<>>),
                                             OtherSrc),
                                    SameNameSrc),
                           SameNameSrc, t2, <<>>)
    /\ clock = StartClock
    /\ run = IdleRun
    /\ rs = IdleRs
    /\ out = <<>>
    /\ procs = NoProcs /\ ret = IdleRet

\* initiate_backup is called with two sources, a second after the run before
SnStart ==
    /\ ~RunActive /\ run.n < MaxRuns /\ run.pc \in {"idle", "done"}
    /\ \E sources \in SourcePairs :
          /\ clock' = TickClock(clock, 1)
          /\ SetDiskRun(IbBegin(disk, run, TickClock(clock, 1), FALSE, sources))
    /\ rs' = IdleRs
    /\ out' = <<>>
    /\ UNCHANGED <<procs, ret>>

NextSources ==
    \/ SnStart
    \/ IbHardlink
    \/ IbStrip
    \/ IbSyncBegin
    \/ IbSyncNext
    \/ IbFinalize

SpecSources == InitSources /\ [][NextSources]_vars

\* what is under root: the type, the content and the target of every entry
TreeContent(d, root) ==
    [rel \in RelPathsUnder(d, root) |->
        [type |-> Lstat(d, root \o rel).type, data |-> Lstat(d, root \o rel).data,
         target |-> Lstat(d, root \o rel).target]]

\* the directory of the new backup that the sync of source i wrote
SyncedTo(i) == Join(run.cur, Basename(run.sources[i]))

\* C36: in one run, no step of the sync of a source deletes or overwrites
\* what the sync of another source of the run, done before, left in the new
\* backup, for every list of sources, two sources of the same basename
\* included.
C36_SourcesKeepApart ==
    [][(/\ run.pc = "sync" /\ run.idx \in DOMAIN run.sources
        /\ run'.pc \in {"sync", "finalize"} /\ ~run'.failed)
          => \A i \in 1..(run.idx - 1) :
                run.sources[i] # run.sources[run.idx]
                   => TreeContent(disk', SyncedTo(i)) = TreeContent(disk, SyncedTo(i))]_vars

---------------------------------------------------------------------------
(* SpecSync: the triples of one call of fs.rsync, path by path and in order *)

\* C37 as stated: one call of fs.rsync yields at most one triple for any
\* relative path, an entry whose mode and owner both differ included.
C37_OneActionPerPath ==
    \A i, j \in 1..Len(out) : out[i][1] = out[j][1] => i = j

\* C37: one call of fs.rsync yields at most one triple for any relative
\* path, but for an entry that needs no rewrite and whose mode and owner
\* both differ: it yields UPDATE_PERM and, next, UPDATE_OWNER.  The checks
\* before these two (type, shared inode, size and time, symlink target) form
\* a chain in which the first that applies decides.
C37_OneActionOrPermThenOwner ==
    \A i, j \in 1..Len(out) :
        (i < j /\ out[i][1] = out[j][1]) =>
            (j = i + 1 /\ out[i][2] = "UPDATE_PERM" /\ out[j][2] = "UPDATE_OWNER")

\* the call is over and yielded UPDATE_PERM and UPDATE_OWNER for a file
\* whose mode and owner both differed, and one triple for another path
C37_Witness ==
    /\ SyncDone
    /\ \E i \in 1..Len(out) :
          /\ i + 1 \in 1..Len(out)
          /\ out[i] = <<<<NameA>>, "UPDATE_PERM">>
          /\ out[i + 1] = <<<<NameA>>, "UPDATE_OWNER">>
    /\ \E k \in 1..Len(out) : out[k][1] = <<NameC>>

---------------------------------------------------------------------------
(* SpecRetLoop: one call of cleanup_old_backups, one iteration of its loop *)
(* at a time.  ret.pc is "loop" inside the for statement of line 221 and   *)
(* "done" after the return; ret.all is all_backups, ret.rest the backups   *)
(* still to visit, ret.prev is prev_backup, ret.rm the backups to_remove   *)
(* marks and ret.th is thresholds.                                         *)

\* an iteration that makes every backup it visits the next prev_backup
RetIter_Anchor(prev, rm, th, b, bucket) ==
    IF bucket = "none" THEN [prev |-> b, rm |-> rm \cup {b}]
    ELSE IF bucket = "all" THEN [prev |-> b, rm |-> rm]
    ELSE IF RetSame(bucket, DateFromBackup(prev), DateFromBackup(b))
        THEN [prev |-> b, rm |-> rm \cup RetDrop(prev, b)]
    ELSE [prev |-> b, rm |-> rm]

\* lines 221-259: one iteration of the loop, for backup b
RetIter(prev, rm, th, b, bucket) ==
    IF bucket = "none" THEN [prev |-> prev, rm |-> rm \cup {b}]
    ELSE IF bucket = "all" THEN [prev |-> b, rm |-> rm]
    ELSE IF RetSame(bucket, DateFromBackup(prev), DateFromBackup(b))
        THEN [prev |-> b, rm |-> rm \cup RetDrop(prev, b)]
    ELSE [prev |-> b, rm |-> rm]

\* lines 179-219: the backups sorted, the early returns, the thresholds
RlCall(all, now, dry, k, before) ==
    IF Len(all) <= 1
        THEN [pc |-> "done", dry |-> dry, keep |-> k, before |-> before, all |-> all,
              rest |-> <<>>, prev |-> <<>>, rm |-> {}, th |-> RetThresholds(now, k)]
        ELSE [pc |-> "loop", dry |-> dry, keep |-> k, before |-> before, all |-> all,
              rest |-> Tail(all), prev |-> all[1], rm |-> {},
              th |-> RetThresholds(now, k)]

RlBegin ==
    /\ ret.pc = "idle"
    /\ \E dry \in BOOLEAN, k \in KeepArgs :
          ret' = RlCall(Reversed(SortedBackups(IterateBackups(disk, BackupsDir))),
                        clock, dry, k, IterateBackups(disk, BackupsDir))
    /\ UNCHANGED <<disk, clock, procs, run, rs, out>>

RlIterated(r, it) == [r EXCEPT !.rest = Tail(r.rest), !.prev = it.prev, !.rm = it.rm]

RlVisit ==
    /\ ret.pc = "loop" /\ ret.rest # <<>>
    /\ ret' = RlIterated(ret, RetIter(ret.prev, ret.rm, ret.th, Head(ret.rest),
                                      RetBucket(Basename(Head(ret.rest)), ret.th)))
    /\ UNCHANGED <<disk, clock, procs, run, rs, out>>

\* lines 262-267
RlRemove ==
    /\ ret.pc = "loop" /\ ret.rest = <<>>
    /\ disk' = IF ret.dry THEN disk ELSE RmtreeAll(disk, ret.rm)
    /\ ret' = [ret EXCEPT !.pc = "done"]
    /\ UNCHANGED <<clock, procs, run, rs, out>>

NextRetLoop == RlBegin \/ RlVisit \/ RlRemove

SpecRetLoop == InitRetention /\ [][NextRetLoop]_vars

\* the loop, one iteration at a time, marks the backups RetLoop marks
LoopAgrees ==
    (ret.pc = "done" /\ Len(ret.all) > 1) =>
        ret.rm = RetLoop(Tail(ret.all), ret.all[1], {}, ret.th)

\* backup b is not newer than the cutoff of any tier, the cutoff of a tier
\* that is not given being now
PastEveryCutoff(b) ==
    \A tier \in {"all", "daily", "weekly", "monthly", "yearly"} :
        ~Later(StampOf(b), ComputedCutoff(tier, clock, ret.keep))

\* C38: for every choice of the keep_* arguments, the iteration that visits
\* a backup that is not newer than any tier's cutoff marks it and leaves
\* prev_backup as it was, and a cleanup that is not a dry run has removed
\* every such backup but the newest of all when it returns.
C38_PastCutoffsDeleted ==
    [][/\ (ret.pc = "loop" /\ ret.rest # <<>> /\ PastEveryCutoff(Head(ret.rest)))
             => (ret'.prev = ret.prev /\ Head(ret.rest) \in ret'.rm)
       /\ (ret.pc = "loop" /\ ret'.pc = "done" /\ ~ret.dry)
             => \A b \in ret.before \ {ret.all[1]} :
                   PastEveryCutoff(b) => ~Lexists(disk', b)]_vars

\* a cleanup with a tier given that was no dry run has returned: it removed
\* a backup that was past every cutoff, visited when prev_backup was no
\* longer the newest backup, and left that prev_backup there
C38_Witness ==
    /\ ret.pc = "done" /\ ~ret.dry /\ Len(ret.all) = MaxBackups
    /\ ret.keep.daily.on
    /\ ret.prev # ret.all[1] /\ Lexists(disk, ret.prev)
    /\ \E b \in ret.before : PastEveryCutoff(b) /\ ~Lexists(disk, b)

\* the actions on an entry the dst tree had
OnExisting == {"DELETE", "REWRITE", "UPDATE_TIME", "UPDATE_PERM", "UPDATE_OWNER"}

\* C39: in the triples of one call of fs.rsync, no action on an entry that
\* was in dst (DELETE, REWRITE, UPDATE_*) comes after a CREATE, and of two
\* such actions, on a directory and on an entry inside it, the one inside
\* comes first; of two CREATEs, of a directory and of an entry inside it,
\* the directory's comes first, and the parent directory of every path
\* created is in dst.
C39_ExistingThenCreate ==
    /\ \A i, j \in 1..Len(out) :
          /\ (out[i][2] = "CREATE" /\ out[j][2] \in OnExisting) => j < i
          /\ (/\ out[i][2] \in OnExisting /\ out[j][2] \in OnExisting
              /\ StrictlyUnder(out[i][1], out[j][1])) => i < j
          /\ (/\ out[i][2] = "CREATE" /\ out[j][2] = "CREATE"
              /\ StrictlyUnder(out[i][1], out[j][1])) => j < i
    /\ \A i \in 1..Len(out) :
          out[i][2] = "CREATE" => TypeOf(disk, DstRoot \o Parent(out[i][1])) = "dir"

\* the call is over: it deleted an entry inside a directory of dst and then
\* acted on the directory, and after that created an entry
C39_Witness ==
    /\ SyncDone
    /\ \E i, j, k \in 1..Len(out) :
          /\ i < j /\ j < k
          /\ out[i] = <<<<NameA, NameB>>, "DELETE">>
          /\ out[j][1] = <<NameA>> /\ out[j][2] \in OnExisting
          /\ out[k][2] = "CREATE"

\* the call is over: it created a directory and then an entry inside it
CreatedInside ==
    /\ SyncDone
    /\ \E i, j \in 1..Len(out) :
          /\ i < j
          /\ out[i] = <<<<NameA>>, "CREATE">>
          /\ out[j] = <<<<NameA, NameB>>, "CREATE">>

---------------------------------------------------------------------------
(* SpecStrip: runs of initiate_backup on a backups directory that holds a  *)
(* completed backup with a delta directory of its own                      *)

\* the backup of the day before the first run
EarlierBackup ==
    Join(BackupsDir, Strftime(DateTimeOf([day |-> StartClock.day - 1, sec |-> StartClock.sec])))

\* what the delta directory of the earlier backup holds under the source's name
DeltaTrees == {Tree("f", "-", "-"), Tree("d", "f", "-"), Tree("-", "-", "f_size")}

\* the earlier backup: the source's copy, the delta directory, the marker
PlantEarlier(d, b, t, dt) ==
    SetBackupMarker(
        PlantTree(PlantDir(PlantDir(PlantTree(PlantDir(PlantDir(d, b), Join(b, Basename(SrcRoot))),
                                              Join(b, Basename(SrcRoot)), t, <<>>),
                                    Join(b, DELTA_DIR)),
                           Join(Join(b, DELTA_DIR), Basename(SrcRoot))),
                  Join(Join(b, DELTA_DIR), Basename(SrcRoot)), dt, <<>>),
        b).d

InitStrip ==
    /\ \E t \in PairTrees, dt \in DeltaTrees, t1 \in PairTrees :
          disk = PlantEarlier(
                     PlantDir(PlantDir(PlantTree(PlantDir(PlantDir(EmptyDisk, BackupsDir),
                                                          SrcRoot),
                                                 SrcRoot, t1, <<>>),
                                       OtherSrc),
                              SameNameSrc),
                     EarlierBackup, t, dt)
    /\ clock = StartClock
    /\ run = IdleRun
    /\ rs = IdleRs
    /\ out = <<>>
    /\ procs = NoProcs /\ ret = IdleRet

SpecStrip == InitStrip /\ [][NextSources]_vars

\* the delta directory of backup b: every entry under it with its inode
DeltaOf(d, b) ==
    [rel \in RelPathsUnder(d, Join(b, DELTA_DIR)) |-> Lstat(d, Join(b, DELTA_DIR) \o rel)]

\* the copy of the latest backup is made and stripped, and fs.rsync was not
\* called yet
BeforeFirstSync ==
    /\ run.pc = "sync" /\ run.idx = 1 /\ rs.phase = "idle"
    /\ run.latest # <<>> /\ ~run.failed

\* C40: after fs.hardlink_dir returned True and before the first call of
\* fs.rsync of the run, the new backup has no marker file and no delta
\* directory, and the latest backup has its marker and the delta directory
\* it had when the run began, entry by entry.
C40_CopyStripped ==
    [][/\ (run'.pc \in {"hardlink", "strip"} \/ (run.pc = "strip" /\ run'.pc = "sync"))
             => /\ Exists(disk', GetBackupMarker(run'.latest))
                /\ DeltaOf(disk', run'.latest) = DeltaOf(disk, run'.latest)
       /\ (run.pc = "strip" /\ run'.pc = "sync")
             => /\ \A n \in Listdir(disk', run'.cur) : ~StartsWith(n, BACKUP_MARKER)
                /\ ~Lexists(disk', Join(run'.cur, DELTA_DIR))]_vars

\* before the first call of fs.rsync, the latest backup has a delta
\* directory with a file in a directory, and the new backup has the copy of
\* the source's files of the latest
C40_Witness ==
    /\ BeforeFirstSync
    /\ TypeOf(disk, Join(run.latest, DELTA_DIR) \o <<Basename(SrcRoot), NameA, NameB>>) = "file"
    /\ ~Lexists(disk, Join(run.cur, DELTA_DIR))
    /\ ChildrenOf(disk, Join(run.cur, Basename(SrcRoot))) # {}

====
